---------------------------- MODULE Spec2Model ----------------------------
(***************************************************************************)
(* A model of JSGFTools: the jsgf.Grammar rule table (add_rule, get_rule,  *)
(* validate, detect_cycles, is_recursive), the loading entry points        *)
(* (from_string, from_stream, from_file, through LegacyAdapter) and the    *)
(* deterministic generator with its recursion guard.                       *)
(*                                                                         *)
(* Strings are sequences of one-character strings, so that str.strip, the  *)
(* "<" + name + ">" formatting of get_rule and " ".join are computed as    *)
(* the code computes them.  Python's None is the record NoneVal.           *)
(***************************************************************************)
EXTENDS Integers, Sequences, FiniteSets, TLC

VARIABLES
    rules,          \* Grammar._rules: dict name -> Rule, in insertion order
    public_rules,   \* Grammar._public_rules: list of Rule
    file,           \* what is at the grammar file's path
    max_recursion_depth,    \* GeneratorConfig.max_recursion_depth
    tracker,        \* _recursion_tracker of the DeterministicGenerator
    ptracker,       \* _recursion_tracker of the ProbabilisticGenerator
    instances,      \* _recursion_tracker of each generator that callers share
    callers,        \* each concurrent caller: its generator and its call
    ret             \* the last call made, with what it returned or raised

vars == <<rules, public_rules, file, max_recursion_depth, tracker, ptracker,
          instances, callers, ret>>
conc == <<instances, callers>>
gen == <<max_recursion_depth, tracker, ptracker, conc>>

-----------------------------------------------------------------------------
(* Bounds of the model *)

MaxRules == 3
MaxDefs == 3
MaxDepth == 2
MaxResidue == 2
MaxStack == 3
MaxChoices == 3
MaxWeight == 2
MaxNesting == 3
MaxLines == 3
MaxResults == 2

-----------------------------------------------------------------------------
(* Python values *)

NoneVal == [kind |-> "None"]

LT == "<"
GT == ">"
SP == " "

\* the two spellings of a rule name: x and <x>
BareName(id) == <<id>>
Bracketed(id) == <<LT, id, GT>>

RECURSIVE lstrip(_, _)
lstrip(s, chars) ==
    IF s # <<>> /\ Head(s) \in chars THEN lstrip(Tail(s), chars) ELSE s

RECURSIVE rstrip(_, _)
rstrip(s, chars) ==
    IF s # <<>> /\ s[Len(s)] \in chars
    THEN rstrip(SubSeq(s, 1, Len(s) - 1), chars)
    ELSE s

\* str.strip(chars): drops every leading and trailing character of chars
strip(s, chars) == rstrip(lstrip(s, chars), chars)

-----------------------------------------------------------------------------
(* jsgf/ast_nodes.py *)

Terminal(value) == [kind |-> "Terminal", value |-> value]
NonTerminal(name) == [kind |-> "NonTerminal", name |-> name]
Sequence(elements) == [kind |-> "Sequence", elements |-> elements]
\* choices: a sequence of <<node, weight>> pairs
Alternative(choices) == [kind |-> "Alternative", choices |-> choices]
OptionalNode(element) == [kind |-> "Optional", element |-> element]
Group(element) == [kind |-> "Group", element |-> element]

\* the choices Alternative.__init__ is given: a node, or a (node, weight)
\* tuple
Unweighted(node) == [tuple |-> FALSE, node |-> node]
Weighted(node, weight) == [tuple |-> TRUE, node |-> node, weight |-> weight]

\* Alternative.__init__: a choice that is no tuple gets the weight 1.0
AlternativeInit(choices) ==
    Alternative([i \in 1..Len(choices) |->
                    IF choices[i].tuple THEN <<choices[i].node, choices[i].weight>>
                    ELSE <<choices[i].node, 1>>])

\* a == b on two nodes, where same tells whether they are one object:
\* Terminal and NonTerminal define __eq__, and the other classes inherit
\* the comparison of object, which is identity
NodeEq(a, b, same) ==
    CASE a.kind = "Terminal" -> b.kind = "Terminal" /\ a.value = b.value
      [] a.kind = "NonTerminal" -> b.kind = "NonTerminal" /\ a.name = b.name
      [] OTHER -> b.kind \notin {"Terminal", "NonTerminal"} /\ same

Rule(name, expansion, is_public) ==
    [name |-> name, expansion |-> expansion, is_public |-> is_public]

-----------------------------------------------------------------------------
(* jsgf/grammar.py: the rule table *)

\* a Grammar object as a value
Grammar(rs, pub) == [rules |-> rs, public_rules |-> pub]
EmptyGrammar == Grammar(<<>>, <<>>)

\* key in dict
HasKey(rs, key) == \E i \in 1..Len(rs) : rs[i].name = key

\* dict.get(key): the value stored under key, or None
DictGet(rs, key) ==
    IF HasKey(rs, key)
    THEN rs[CHOOSE i \in 1..Len(rs) : rs[i].name = key]
    ELSE NoneVal

AddRuleAppendsAlways(g, rule) ==
    IF HasKey(g.rules, rule.name)
    THEN [g |-> g, exc |-> "ValueError"]
    ELSE [g |-> Grammar(Append(g.rules, rule), Append(g.public_rules, rule)),
          exc |-> "none"]

AddRuleOverwrites(g, rule) ==
    [g |-> Grammar(Append(g.rules, rule),
                   IF rule.is_public THEN Append(g.public_rules, rule)
                   ELSE g.public_rules),
     exc |-> "none"]

\* Grammar.add_rule on the grammar value g: the grammar after the call and
\* the exception raised ("none" when it returns)
AddRule(g, rule) ==
    IF HasKey(g.rules, rule.name)
    THEN [g |-> g, exc |-> "ValueError"]
    ELSE [g |-> Grammar(Append(g.rules, rule),
                        IF rule.is_public THEN Append(g.public_rules, rule)
                        ELSE g.public_rules),
          exc |-> "none"]

\* Grammar.get_rule: strip('<>'), then look up "<" + clean_name + ">"
GetRule(g, name) ==
    DictGet(g.rules, <<LT>> \o strip(name, {LT, GT}) \o <<GT>>)

\* Grammar.has_rule
HasRule(g, name) == GetRule(g, name) # NoneVal

\* the visitor of Grammar._find_undefined_references: the names of the
\* NonTerminals under node that has_rule does not find, in visit order
RECURSIVE FindUndefinedReferences(_, _)
RECURSIVE FindUndefinedInEach(_, _)
FindUndefinedInEach(g, nodes) ==
    IF nodes = <<>> THEN <<>>
    ELSE FindUndefinedReferences(g, Head(nodes))
            \o FindUndefinedInEach(g, Tail(nodes))

FindUndefinedReferences(g, n) ==
    CASE n.kind = "NonTerminal" ->
            IF ~HasRule(g, n.name) THEN <<n.name>> ELSE <<>>
      [] n.kind = "Sequence" -> FindUndefinedInEach(g, n.elements)
      [] n.kind = "Alternative" ->
            FindUndefinedInEach(g, [i \in 1..Len(n.choices) |-> n.choices[i][1]])
      [] n.kind \in {"Optional", "Group"} ->
            FindUndefinedReferences(g, n.element)
      [] OTHER -> <<>>

\* the errors list of Grammar.validate after its loop over the rules from
\* position i on
RECURSIVE UndefinedErrors(_, _)
UndefinedErrors(g, i) ==
    IF i > Len(g.rules) THEN <<>>
    ELSE LET undefined_refs == FindUndefinedReferences(g, g.rules[i].expansion)
         IN  (IF undefined_refs # <<>>
              THEN <<[error |-> "undefined", rule |-> g.rules[i].name,
                      refs |-> undefined_refs]>>
              ELSE <<>>)
             \o UndefinedErrors(g, i + 1)

\* Grammar.validate: the exception raised ("none" when it returns) and the
\* errors its message lists
Validate(g) ==
    LET errors == UndefinedErrors(g, 1)
                    \o (IF g.public_rules = <<>>
                        THEN <<[error |-> "no_public"]>> ELSE <<>>)
    IN  [exc |-> IF errors # <<>> THEN "ValidationError" ELSE "none",
         errors |-> errors]

\* the visitor of Grammar._get_direct_dependencies: the names of the
\* NonTerminals under node, in visit order
RECURSIVE GetDirectDependencies(_)
RECURSIVE DependenciesOfEach(_)
DependenciesOfEach(nodes) ==
    IF nodes = <<>> THEN <<>>
    ELSE GetDirectDependencies(Head(nodes)) \o DependenciesOfEach(Tail(nodes))

GetDirectDependencies(n) ==
    CASE n.kind = "NonTerminal" -> <<n.name>>
      [] n.kind = "Sequence" -> DependenciesOfEach(n.elements)
      [] n.kind = "Alternative" ->
            DependenciesOfEach([i \in 1..Len(n.choices) |-> n.choices[i][1]])
      [] n.kind \in {"Optional", "Group"} -> GetDirectDependencies(n.element)
      [] OTHER -> <<>>

\* graph.get(node, []) for the dependency graph detect_cycles builds
GraphGet(g, node) ==
    IF HasKey(g.rules, node)
    THEN GetDirectDependencies(DictGet(g.rules, node).expansion)
    ELSE <<>>

\* list.index: the first position of x, 0 standing for its ValueError
IndexOf(seq, x) ==
    IF \E i \in 1..Len(seq) : seq[i] = x
    THEN CHOOSE i \in 1..Len(seq) :
            seq[i] = x /\ \A j \in 1..(i - 1) : seq[j] # x
    ELSE 0

\* The state of one detect_cycles call: cycles, visited and rec_stack as in
\* the code; entered lists the nodes in the order visited.add took them;
\* exc is the exception under way.
DfsStart ==
    [cycles |-> <<>>, visited |-> {}, rec_stack |-> {}, entered |-> <<>>,
     exc |-> "none"]

\* dfs(node, path) of detect_cycles, and its loop over the neighbors
RECURSIVE Dfs(_, _, _, _)
RECURSIVE DfsEach(_, _, _, _)
DfsEach(g, neighbors, path, st) ==
    IF neighbors = <<>> \/ st.exc # "none" THEN st
    ELSE DfsEach(g, Tail(neighbors), path, Dfs(g, Head(neighbors), path, st))

DfsVisitedFirst(g, node, path, st) ==
    IF node \in st.visited THEN st
    ELSE LET st1 == [st EXCEPT !.visited = @ \cup {node},
                               !.rec_stack = @ \cup {node},
                               !.entered = Append(@, node)]
             st2 == DfsEach(g, GraphGet(g, node), Append(path, node), st1)
         IN  IF st2.exc # "none" THEN st2
             ELSE [st2 EXCEPT !.rec_stack = @ \ {node}]

Dfs(g, node, path, st) ==
    IF node \in st.rec_stack
    THEN LET cycle_start == IndexOf(path, node) IN
         IF cycle_start = 0 THEN [st EXCEPT !.exc = "ValueError"]
         ELSE [st EXCEPT !.cycles =
                 Append(@, SubSeq(path, cycle_start, Len(path)) \o <<node>>)]
    ELSE IF node \in st.visited THEN st
    ELSE LET st1 == [st EXCEPT !.visited = @ \cup {node},
                               !.rec_stack = @ \cup {node},
                               !.entered = Append(@, node)]
             st2 == DfsEach(g, GraphGet(g, node), Append(path, node), st1)
         IN  IF st2.exc # "none" THEN st2
             ELSE [st2 EXCEPT !.rec_stack = @ \ {node}]

\* the loop of detect_cycles over the rules from position i on
RECURSIVE DfsFromEachRule(_, _, _)
DfsFromEachRule(g, i, st) ==
    IF i > Len(g.rules) \/ st.exc # "none" THEN st
    ELSE DfsFromEachRule(g, i + 1,
            IF g.rules[i].name \notin st.visited
            THEN Dfs(g, g.rules[i].name, <<>>, st)
            ELSE st)

\* Grammar.detect_cycles
DetectCycles(g) == DfsFromEachRule(g, 1, DfsStart)

\* the rule_name argument of is_recursive: absent, or a name
NoName == [given |-> FALSE]
Name(n) == [given |-> TRUE, name |-> n]

\* Grammar.is_recursive
IsRecursive(g, rule_name) ==
    LET cycles == DetectCycles(g).cycles IN
    IF ~rule_name.given THEN Len(cycles) > 0
    ELSE LET full_name == <<LT>> \o strip(rule_name.name, {LT, GT}) \o <<GT>>
         IN  \E k \in 1..Len(cycles) :
                \E i \in 1..Len(cycles[k]) : cycles[k][i] = full_name

-----------------------------------------------------------------------------
(* JSGFGrammar.py: what the legacy parser builds.  A right-hand side is a   *)
(* str, a list, a Disjunction (whose disjuncts may be (expression, weight)  *)
(* tuples), an Optional or a NonTerminal.                                   *)

LStr(value) == [kind |-> "str", value |-> value]
LList(items) == [kind |-> "list", items |-> items]
LTuple(node, weight) == [kind |-> "tuple", node |-> node, weight |-> weight]
LDisjunction(disjuncts) == [kind |-> "Disjunction", disjuncts |-> disjuncts]
LOptional(option) == [kind |-> "LOptional", option |-> option]
LNonTerminal(name) == [kind |-> "LNonTerminal", name |-> name]
LRule(lhs, rhs) == [lhs |-> lhs, rhs |-> rhs]
LGrammar(rs, pub) == [rules |-> rs, publicRules |-> pub]

\* A source text of well-formed rule definitions, one record for each:
\* [public, name, rhs] stands for  public? name = rhs ;
Definition(public, name, rhs) == [public |-> public, name |-> name, rhs |-> rhs]

\* JSGFParser.getGrammarObject on such a text: every definition is added to
\* rules, and to publicRules as well when it starts with public
RECURSIVE getGrammarObject(_)
getGrammarObject(src) ==
    IF src = <<>> THEN LGrammar(<<>>, <<>>)
    ELSE LET d == src[Len(src)]
             g == getGrammarObject(SubSeq(src, 1, Len(src) - 1))
             rule == LRule(LNonTerminal(d.name), d.rhs)
         IN  LGrammar(Append(g.rules, rule),
                      IF d.public THEN Append(g.publicRules, rule)
                      ELSE g.publicRules)

\* A source text as getGrammarObject reads it: a list of lines, each a
\* list of chunks of text.  A head stands for  public? <name> = , a body
\* for an expansion that topLevel matches whole (rhs is the ruleDef it
\* gives), and a body is followed by  ;  or by a head.  No token of a body
\* is the word public.
HeadChunk(public, name) == [chunk |-> "head", public |-> public, name |-> name]
BodyChunk(rhs) == [chunk |-> "body", rhs |-> rhs]
SemiChunk == [chunk |-> "semi"]
\* text that topLevel does not match: an unbalanced bracket, a weight
\* that is not made of digits and dots
UnparsedChunk == [chunk |-> "unparsed"]
\* a weight made of digits and dots that float() does not accept
BadWeightChunk == [chunk |-> "bad_weight"]
\* // and what follows it on the line
SlashCommentChunk == [chunk |-> "//"]
\* text with a * in it
StarChunk == [chunk |-> "*"]
\* the marks of a block comment
OpenChunk == [chunk |-> "/*"]
CloseChunk == [chunk |-> "*/"]
\* '*' in oldline
HasStar(oldline) ==
    \E i \in 1..Len(oldline) : oldline[i].chunk \in {"*", "/*", "*/"}

\* the definition as text
Chunks(d) == <<HeadChunk(d.public, d.name), BodyChunk(d.rhs), SemiChunk>>

\* the position of the first chunk of that kind in the line, 0 if none
FirstChunk(line, kind) ==
    IF \E i \in 1..Len(line) : line[i].chunk = kind
    THEN CHOOSE i \in 1..Len(line) :
            /\ line[i].chunk = kind
            /\ \A k \in 1..(i - 1) : line[k].chunk # kind
    ELSE 0

\* JSGFParser.nocomment
nocomment(oldline) ==
    IF FirstChunk(oldline, "//") # 0
    THEN SubSeq(oldline, 1, FirstChunk(oldline, "//") - 1)
    ELSE IF HasStar(oldline) THEN <<>>
    ELSE oldline

\* An expansion as the tokens of its text: words, nonterminal references,
\* weights /w/, and the marks | ( ) [ ]
WordToken(value) == [t |-> "word", value |-> value]
NameToken(name) == [t |-> "nonterminal", name |-> name]
WeightToken(weight) == [t |-> "weight", weight |-> weight]
Mark(m) == [t |-> m]
\* the text of an expansion, between = and ;
TextChunk(tokens) == [chunk |-> "text", tokens |-> tokens]

NoParse == [ok |-> FALSE]
Parsed(toks, end) == [ok |-> TRUE, toks |-> toks, end |-> end]
IsMark(text, loc, m) == loc <= Len(text) /\ text[loc].t = m

\* foundPair: the Disjunction of the first alternative and of what
\* follows the |
foundPair(disj1, disj2) ==
    LET disj == IF Len(disj1) > 1 THEN <<LList(disj1)>> ELSE disj1
    IN  LDisjunction(
            IF Len(disj2) = 1
            THEN IF disj2[1].kind = "Disjunction" THEN disj \o disj2[1].disjuncts
                 ELSE Append(disj, disj2[1])
            ELSE Append(disj, LList(disj2)))

\* foundOptionalGroup
foundOptionalGroup(toks) ==
    IF Len(toks) > 1 THEN LOptional(LList(toks)) ELSE LOptional(toks[1])

\* foundWeightedExpression
foundWeightedExpression(expr, weight) ==
    LTuple(IF Len(expr) = 1 THEN expr[1] ELSE LList(expr), weight)

\* The pyparsing elements of the parser at position loc of a text: whether
\* they match, the tokens they give and the position after the match.  An
\* element matches as far as it can and MatchFirst takes the first
\* alternative that matches; nothing is tried again once it has matched.
RECURSIVE ParseTopLevel(_, _)
RECURSIVE ParseDisj(_, _)
RECURSIVE ParseWeightAlternatives(_, _)
RECURSIVE ParseOneOrMore(_, _)

\* Grouping and OptionalGrouping after their opening bracket: the topLevel
\* match r inside, then the closing bracket
CloseBracket(text, open, r) ==
    IF ~r.ok THEN NoParse
    ELSE IF open = "(" /\ IsMark(text, r.end, ")") THEN Parsed(r.toks, r.end + 1)
    ELSE IF open = "[" /\ IsMark(text, r.end, "]")
    THEN Parsed(<<foundOptionalGroup(r.toks)>>, r.end + 1)
    ELSE NoParse

\* MatchFirst([Grouping, OptionalGrouping, Expression])
ParseElement(text, loc) ==
    IF loc > Len(text) THEN NoParse
    ELSE CASE text[loc].t \in {"(", "["} ->
                CloseBracket(text, text[loc].t, ParseTopLevel(text, loc + 1))
           [] text[loc].t = "nonterminal" ->
                Parsed(<<LNonTerminal(text[loc].name)>>, loc + 1)
           [] text[loc].t = "word" -> Parsed(<<LStr(text[loc].value)>>, loc + 1)
           [] OTHER -> NoParse

\* the elements matched so far and the further ones, if any
Joined(e, more) ==
    IF more.ok THEN Parsed(e.toks \o more.toks, more.end) ELSE e

\* OneOrMore after its first element e
MoreAfter(text, e) ==
    IF ~e.ok THEN NoParse ELSE Joined(e, ParseOneOrMore(text, e.end))

\* Sequence: Group(OneOrMore(...)) with foundSeq, which hands on the
\* elements when they are several and the element when it is one
ParseOneOrMore(text, loc) == MoreAfter(text, ParseElement(text, loc))

\* weightedExpression after its weight
Weighing(weight, expr) ==
    IF ~expr.ok THEN NoParse
    ELSE Parsed(<<foundWeightedExpression(expr.toks, weight)>>, expr.end)

\* weightedExpression
ParseWeightedExpression(text, loc) ==
    IF ~IsMark(text, loc, "weight") THEN NoParse
    ELSE Weighing(text[loc].weight, ParseOneOrMore(text, loc + 1))

\* the first alternative and, when a | and further alternatives follow
\* it, the pair that foundPair makes of them
Paired(disj1, disj2) ==
    IF disj2.ok THEN Parsed(<<foundPair(disj1.toks, disj2.toks)>>, disj2.end)
    ELSE disj1

\* disj after its first Sequence disj1
DisjAfter(text, disj1) ==
    IF ~disj1.ok THEN NoParse
    ELSE IF IsMark(text, disj1.end, "|")
    THEN Paired(disj1, ParseDisj(text, disj1.end + 1))
    ELSE disj1

\* disj: a Sequence, | and a disj with foundPair, or else a Sequence
ParseDisj(text, loc) == DisjAfter(text, ParseOneOrMore(text, loc))

\* weightAlternatives after its first weightedExpression disj1
WeightAlternativesAfter(text, disj1) ==
    IF ~disj1.ok THEN NoParse
    ELSE IF IsMark(text, disj1.end, "|")
    THEN Paired(disj1, ParseWeightAlternatives(text, disj1.end + 1))
    ELSE disj1

\* weightAlternatives: a weightedExpression, | and weightAlternatives
\* with foundPair, or else a weightedExpression
ParseWeightAlternatives(text, loc) ==
    WeightAlternativesAfter(text, ParseWeightedExpression(text, loc))

\* the match of the first alternative, or else of the second
OrElse(r, text, loc) ==
    IF r.ok THEN r ELSE ParseWeightAlternatives(text, loc)

\* topLevel = MatchFirst([disj, weightAlternatives])
ParseTopLevel(text, loc) == OrElse(ParseDisj(text, loc), text, loc)

NoMatch == [found |-> FALSE, exc |-> "none"]

\* StartSymbol tried at position loc of the buffer: public? nonterminal =
\* topLevel ; stringEnd.  The parse action of a weight runs as soon as the
\* weight is matched, and a ValueError of its float() leaves the parser.
\* the match of StartSymbol at a head whose expansion is tokens that
\* topLevel matches as r: the ; has to follow the match
WholeText(buffer, loc, r) ==
    IF r.ok /\ r.end = Len(buffer[loc + 1].tokens) + 1
    THEN [found |-> TRUE, exc |-> "none", public |-> buffer[loc].public,
          identifier |-> buffer[loc].name, ruleDef |-> LList(r.toks),
          start |-> loc, end |-> loc + 3]
    ELSE NoMatch

ParseStartSymbol(buffer, loc) ==
    IF buffer[loc].chunk # "head" \/ loc = Len(buffer) THEN NoMatch
    ELSE IF buffer[loc + 1].chunk = "bad_weight"
    THEN [found |-> FALSE, exc |-> "ValueError"]
    ELSE IF /\ buffer[loc + 1].chunk = "body"
            /\ loc + 2 = Len(buffer)
            /\ buffer[loc + 2].chunk = "semi"
    THEN [found |-> TRUE, exc |-> "none", public |-> buffer[loc].public,
          identifier |-> buffer[loc].name, ruleDef |-> buffer[loc + 1].rhs,
          start |-> loc, end |-> loc + 3]
    ELSE IF /\ buffer[loc + 1].chunk = "text"
            /\ loc + 2 = Len(buffer)
            /\ buffer[loc + 2].chunk = "semi"
    THEN WholeText(buffer, loc, ParseTopLevel(buffer[loc + 1].tokens, 1))
    ELSE NoMatch

\* next(StartSymbol.scanString(buffer), None): the first match, looked for
\* at every position of the buffer from loc on
RECURSIVE ScanString(_, _)
ScanFrom(buffer, loc, m) ==
    IF m.found \/ m.exc # "none" THEN m ELSE ScanString(buffer, loc + 1)

ScanString(buffer, loc) ==
    IF loc > Len(buffer) THEN NoMatch
    ELSE ScanFrom(buffer, loc, ParseStartSymbol(buffer, loc))

\* the while loop of getGrammarObject over the matches in the buffer
RECURSIVE MatchLoop(_, _)
WhileMatch(buffer, grammar, match) ==
    IF match.exc # "none"
    THEN [exc |-> match.exc, buffer |-> buffer, grammar |-> grammar]
    ELSE IF ~match.found
    THEN [exc |-> "none", buffer |-> buffer, grammar |-> grammar]
    ELSE LET rule == LRule(LNonTerminal(match.identifier), match.ruleDef)
         IN  MatchLoop(SubSeq(buffer, match.end, Len(buffer)),
                       LGrammar(Append(grammar.rules, rule),
                                IF match.public
                                THEN Append(grammar.publicRules, rule)
                                ELSE grammar.publicRules))

MatchLoop(buffer, grammar) == WhileMatch(buffer, grammar, ScanString(buffer, 1))

\* the for loop of getGrammarObject over the lines from the i-th on
RECURSIVE ReadLines(_, _, _, _)
ForLine(lines, i, r) ==
    IF r.exc # "none" THEN [exc |-> r.exc, val |-> NoneVal]
    ELSE ReadLines(lines, i + 1, r.buffer, r.grammar)

ReadLines(lines, i, buffer, grammar) ==
    IF i > Len(lines) THEN [exc |-> "none", val |-> grammar]
    ELSE ForLine(lines, i, MatchLoop(buffer \o lines[i], grammar))

\* JSGFParser.getGrammarObject on a text of lines: the exception raised
\* and the grammar returned
getGrammarObjectOfLines(lines) ==
    ReadLines([i \in 1..Len(lines) |-> nocomment(lines[i])], 1, <<>>,
              LGrammar(<<>>, <<>>))

(* jsgf/legacy_adapter.py *)

\* the decimal digits of a natural number
RECURSIVE DigitsOf(_)
DigitsOf(n) ==
    LET digit == <<"0", "1", "2", "3", "4", "5", "6", "7", "8", "9">>[(n % 10) + 1]
    IN  IF n < 10 THEN <<digit>> ELSE Append(DigitsOf(n \div 10), digit)

\* repr() of a float that holds a whole number: 5.0
FloatRepr(weight) == DigitsOf(weight) \o <<".", "0">>

\* str() and repr() of a node of the legacy grammar: the __str__ of
\* JSGFGrammar's classes, which is their __repr__ too, the quoted text of
\* a string, the bracketed reprs of a list and the (node, weight) of a
\* tuple
RECURSIVE LStrOf(_), LReprOf(_), LJoinOf(_, _, _)
LJoinOf(sep, items, quoted) ==
    IF items = <<>> THEN <<>>
    ELSE LET first == IF quoted THEN LReprOf(Head(items)) ELSE LStrOf(Head(items))
         IN  IF Len(items) = 1 THEN first
             ELSE first \o sep \o LJoinOf(sep, Tail(items), quoted)

LStrOf(rhs) ==
    CASE rhs.kind = "str" -> rhs.value
      [] rhs.kind = "list" -> <<"[">> \o LJoinOf(<<",", SP>>, rhs.items, TRUE) \o <<"]">>
      [] rhs.kind = "tuple" ->
            <<"(">> \o LReprOf(rhs.node) \o <<",", SP>> \o FloatRepr(rhs.weight) \o <<")">>
      [] rhs.kind = "Disjunction" ->
            <<"(", SP>> \o LJoinOf(<<SP, "|", SP>>, rhs.disjuncts, FALSE) \o <<SP, ")">>
      [] rhs.kind = "LOptional" -> <<"[", SP>> \o LStrOf(rhs.option) \o <<SP, "]">>
      [] rhs.kind = "LNonTerminal" -> rhs.name

LReprOf(rhs) ==
    IF rhs.kind = "str" THEN <<"'">> \o rhs.value \o <<"'">> ELSE LStrOf(rhs)

\* LegacyAdapter._convert_expansion; whatever is none of the five kinds (a
\* weighted pair outside a Disjunction) becomes the Terminal of its str()
RECURSIVE ConvertExpansion(_)
ConvertExpansion(rhs) ==
    CASE rhs.kind = "str" -> Terminal(rhs.value)
      [] rhs.kind = "list" ->
            IF Len(rhs.items) = 1 THEN ConvertExpansion(rhs.items[1])
            ELSE Sequence([i \in 1..Len(rhs.items) |->
                                ConvertExpansion(rhs.items[i])])
      [] rhs.kind = "Disjunction" ->
            Alternative([i \in 1..Len(rhs.disjuncts) |->
                LET disjunct == rhs.disjuncts[i] IN
                IF disjunct.kind = "tuple"
                THEN <<ConvertExpansion(disjunct.node), disjunct.weight>>
                ELSE <<ConvertExpansion(disjunct), 1>>])
      [] rhs.kind = "LOptional" -> OptionalNode(ConvertExpansion(rhs.option))
      [] rhs.kind = "LNonTerminal" -> NonTerminal(rhs.name)
      [] OTHER -> Terminal(LStrOf(rhs))

\* LegacyAdapter._convert_rule
ConvertRule(legacy_rule, is_public) ==
    Rule(legacy_rule.lhs.name, ConvertExpansion(legacy_rule.rhs), is_public)

\* the loop of parse_to_grammar from legacy rule i on; it stops at the first
\* add_rule that raises
RECURSIVE AddConverted(_, _, _)
AddConverted(legacy_gram, g, i) ==
    IF i > Len(legacy_gram.rules) THEN [g |-> g, exc |-> "none"]
    ELSE LET rule == legacy_gram.rules[i]
             public_rule_names ==
                {legacy_gram.publicRules[k].lhs.name :
                    k \in 1..Len(legacy_gram.publicRules)}
             r == AddRule(g, ConvertRule(rule, rule.lhs.name \in public_rule_names))
         IN  IF r.exc # "none" THEN r
             ELSE AddConverted(legacy_gram, r.g, i + 1)

\* LegacyAdapter.parse_to_grammar: the grammar as it leaves it populated and
\* the exception raised; any exception leaves as a ParseError
ParseToGrammar(src, g) ==
    LET r == AddConverted(getGrammarObject(src), g, 1)
    IN  [g |-> r.g, exc |-> IF r.exc # "none" THEN "ParseError" ELSE "none"]

(* jsgf/grammar.py: the loading entry points *)

FromStringUnvalidated(src) ==
    LET p == ParseToGrammar(src, EmptyGrammar)
    IN  IF p.exc # "none" THEN [exc |-> "ParseError", val |-> NoneVal]
        ELSE [exc |-> "none", val |-> p.g]

\* Grammar.from_string: the exception raised and the Grammar returned
FromString(src) ==
    LET p == ParseToGrammar(src, EmptyGrammar)
    IN  IF p.exc # "none" THEN [exc |-> "ParseError", val |-> NoneVal]
        ELSE LET v == Validate(p.g)
             IN  IF v.exc # "none" THEN [exc |-> v.exc, val |-> NoneVal]
                 ELSE [exc |-> "none", val |-> p.g]

\* Grammar.from_stream
FromStream(src) ==
    LET p == ParseToGrammar(src, EmptyGrammar)
    IN  IF p.exc # "none" THEN [exc |-> "ParseError", val |-> NoneVal]
        ELSE LET v == Validate(p.g)
             IN  IF v.exc # "none" THEN [exc |-> v.exc, val |-> NoneVal]
                 ELSE [exc |-> "none", val |-> p.g]

\* the rule definitions that a legacy grammar was made of (the adapter
\* reads the names of the public rules only)
DefinitionsOf(legacy_gram) ==
    [i \in 1..Len(legacy_gram.rules) |->
        Definition(\E k \in 1..Len(legacy_gram.publicRules) :
                        legacy_gram.publicRules[k] = legacy_gram.rules[i],
                   legacy_gram.rules[i].lhs.name, legacy_gram.rules[i].rhs)]

\* Grammar.from_string on a text of lines: an exception of the parser
\* leaves as ParseError("Failed to parse grammar: ..."), whose line is None
FromStringOfLines(lines) ==
    LET p == getGrammarObjectOfLines(lines)
    IN  IF p.exc # "none"
        THEN [exc |-> "ParseError", line |-> NoneVal, val |-> NoneVal]
        ELSE LET r == FromString(DefinitionsOf(p.val))
             IN  [exc |-> r.exc, line |-> NoneVal, val |-> r.val]

\* what is at a path: a file with its text, or nothing
File(text) == [exists |-> TRUE, text |-> text]
NoFile == [exists |-> FALSE]

\* Grammar.from_file on a path that leads to f
FromFile(f) ==
    IF ~f.exists THEN [exc |-> "FileNotFoundError", val |-> NoneVal]
    ELSE LET r == FromStream(f.text)
         IN  IF r.exc # "none" THEN [exc |-> "ParseError", val |-> NoneVal]
             ELSE r

-----------------------------------------------------------------------------
(* jsgf/generators.py: GeneratorConfig, BaseGenerator and                   *)
(* DeterministicGenerator.  A list of strings is a sequence of strings; the *)
(* context argument of the _process_* methods is passed along by the code   *)
(* and never read, so the operators do not carry it.                        *)

\* GeneratorConfig.__init__: the default of max_recursion_depth
DefaultMaxRecursionDepth == 50

\* BaseGenerator.__init__: self._recursion_tracker = defaultdict(int)
NewTracker == [k \in {} |-> 0]

\* defaultdict(int): reading a key that is absent gives 0
TrackerGet(tr, k) == IF k \in DOMAIN tr THEN tr[k] ELSE 0
TrackerSet(tr, k, v) ==
    [x \in DOMAIN tr \cup {k} |-> IF x = k THEN v ELSE tr[x]]

\* what a _process_* call comes to: the list it returns, or the exception
\* it raises with the rule the message names, and the tracker it leaves
Returned(val, tr) == [exc |-> "none", rule |-> <<>>, val |-> val, tracker |-> tr]
Raised(exc, rule, tr) == [exc |-> exc, rule |-> rule, val |-> <<>>, tracker |-> tr]

CheckRecursionOffByOne(tr, depth, rule_name) ==
    LET tr1 == TrackerSet(tr, rule_name, TrackerGet(tr, rule_name) + 1)
    IN  IF tr1[rule_name] >= depth
        THEN Raised("RecursionError", rule_name, tr1)
        ELSE Returned(NoneVal, tr1)

\* BaseGenerator._check_recursion: the entry is counted before the
\* comparison, so the count stays when the exception is raised
CheckRecursion(tr, depth, rule_name) ==
    LET tr1 == TrackerSet(tr, rule_name, TrackerGet(tr, rule_name) + 1)
    IN  IF tr1[rule_name] > depth
        THEN Raised("RecursionError", rule_name, tr1)
        ELSE Returned(NoneVal, tr1)

\* an entry that is counted and never refused
EnterRuleUnchecked(tr, depth, rule_name) ==
    Returned(NoneVal, TrackerSet(tr, rule_name, TrackerGet(tr, rule_name) + 1))

\* BaseGenerator._enter_rule
EnterRule(tr, depth, rule_name) == CheckRecursion(tr, depth, rule_name)

ExitRuleKeepsCount(tr, rule_name) == tr

\* an exit that takes two from the count
ExitRuleTwice(tr, rule_name) ==
    TrackerSet(tr, rule_name, TrackerGet(tr, rule_name) - 2)

\* BaseGenerator._exit_rule
ExitRule(tr, rule_name) == TrackerSet(tr, rule_name, TrackerGet(tr, rule_name) - 1)

\* itertools.product(*lists): the tuples in order, the last list varying
\* fastest
RECURSIVE Product(_)
Product(lists) ==
    IF lists = <<>> THEN << <<>> >>
    ELSE LET h == Head(lists)
             rest == Product(Tail(lists))
         IN  [k \in 1..(Len(h) * Len(rest)) |->
                <<h[((k - 1) \div Len(rest)) + 1]>>
                    \o rest[((k - 1) % Len(rest)) + 1]]

\* sep.join(pieces)
RECURSIVE Join(_, _)
Join(sep, pieces) ==
    IF pieces = <<>> THEN <<>>
    ELSE IF Len(pieces) = 1 THEN pieces[1]
    ELSE pieces[1] \o sep \o Join(sep, Tail(pieces))

\* a filter that lets the empty pieces through
TruthyAlways(s) == TRUE

\* the filter of the join: `s for s in combination if s`
Truthy(s) == s # <<>>

Reverse(s) == [i \in 1..Len(s) |-> s[Len(s) + 1 - i]]

CombineSequencesFirstFastest(element_strings) ==
    IF element_strings = <<>> THEN << <<>> >>
    ELSE LET P == Product(Reverse(element_strings))
         IN  [k \in 1..Len(P) |-> Join(<<SP>>, SelectSeq(Reverse(P[k]), Truthy))]

\* DeterministicGenerator._combine_sequences
CombineSequences(element_strings) ==
    IF element_strings = <<>> THEN << <<>> >>
    ELSE LET P == Product(element_strings)
         IN  [k \in 1..Len(P) |-> Join(<<SP>>, SelectSeq(P[k], Truthy))]

\* list.extend over the lists of the choices
RECURSIVE Extend(_)
Extend(lists) == IF lists = <<>> THEN <<>> ELSE Head(lists) \o Extend(Tail(lists))

RECURSIVE ProcessNode(_, _, _, _), ProcessEach(_, _, _, _)

\* the loops of _process_sequence and _process_alternative: the lists of
\* the nodes, in order, up to the first one that raises
ProcessEach(g, depth, nodes, tr) ==
    IF nodes = <<>> THEN Returned(<<>>, tr)
    ELSE LET h == ProcessNode(g, depth, Head(nodes), tr)
         IN  IF h.exc # "none" THEN h
             ELSE LET t == ProcessEach(g, depth, Tail(nodes), h.tracker)
                  IN  IF t.exc # "none" THEN t
                      ELSE Returned(<<h.val>> \o t.val, t.tracker)

ProcessNonterminalSkipsUndefined(g, depth, node, tr) ==
    LET rule == GetRule(g, node.name)
    IN  IF rule = NoneVal THEN Returned(<<>>, tr)
        ELSE LET c == EnterRule(tr, depth, node.name)
             IN  IF c.exc # "none" THEN c
                 ELSE LET r == ProcessNode(g, depth, rule.expansion, c.tracker)
                      IN  [r EXCEPT !.tracker = ExitRule(@, node.name)]

\* DeterministicGenerator._process_nonterminal: the exit is in a finally
\* block that opens after the entry
ProcessNonterminal(g, depth, node, tr) ==
    LET rule == GetRule(g, node.name)
    IN  IF rule = NoneVal THEN Raised("GenerationError", node.name, tr)
        ELSE LET c == EnterRule(tr, depth, node.name)
             IN  IF c.exc # "none" THEN c
                 ELSE LET r == ProcessNode(g, depth, rule.expansion, c.tracker)
                      IN  [r EXCEPT !.tracker = ExitRule(@, node.name)]

\* DeterministicGenerator._process_sequence
ProcessSequence(g, depth, node, tr) ==
    IF node.elements = <<>> THEN Returned(<< <<>> >>, tr)
    ELSE LET r == ProcessEach(g, depth, node.elements, tr)
         IN  IF r.exc # "none" THEN r
             ELSE Returned(CombineSequences(r.val), r.tracker)

\* DeterministicGenerator._process_alternative
ProcessAlternative(g, depth, node, tr) ==
    LET choice_nodes == [i \in 1..Len(node.choices) |-> node.choices[i][1]]
        r == ProcessEach(g, depth, choice_nodes, tr)
    IN  IF r.exc # "none" THEN r ELSE Returned(Extend(r.val), r.tracker)

\* DeterministicGenerator._process_optional
ProcessOptional(g, depth, node, tr) ==
    LET r == ProcessNode(g, depth, node.element, tr)
    IN  IF r.exc # "none" THEN r ELSE Returned(<< <<>> >> \o r.val, r.tracker)

\* BaseGenerator._process_group
ProcessGroup(g, depth, node, tr) == ProcessNode(g, depth, node.element, tr)

\* BaseGenerator._process_node
ProcessNode(g, depth, node, tr) ==
    CASE node.kind = "Terminal" -> Returned(<<node.value>>, tr)
      [] node.kind = "NonTerminal" -> ProcessNonterminal(g, depth, node, tr)
      [] node.kind = "Sequence" -> ProcessSequence(g, depth, node, tr)
      [] node.kind = "Alternative" -> ProcessAlternative(g, depth, node, tr)
      [] node.kind = "Optional" -> ProcessOptional(g, depth, node, tr)
      [] node.kind = "Group" -> ProcessGroup(g, depth, node, tr)
      [] OTHER -> Raised("GenerationError", <<>>, tr)

\* `yield string.strip()` over a list
StripEach(strings) == [i \in 1..Len(strings) |-> strip(strings[i], {SP})]

\* what a generate call comes to: the result of its _process_node calls
\* and, in started, the tracker each of them was called with
Call(r, started) ==
    [exc |-> r.exc, rule |-> r.rule, val |-> r.val, tracker |-> r.tracker,
     started |-> started]

\* the loop of generate() over the public rules from the i-th on: the
\* tracker is cleared before each rule, and what earlier rules yielded has
\* been yielded when a later rule raises
RECURSIVE GenerateFromPublicRules(_, _, _, _)
GenerateFromPublicRules(g, depth, i, tr) ==
    IF i > Len(g.public_rules) THEN Call(Returned(<<>>, tr), <<>>)
    ELSE LET r == ProcessNode(g, depth, g.public_rules[i].expansion, NewTracker)
         IN  IF r.exc # "none" THEN Call(r, <<NewTracker>>)
             ELSE LET t == GenerateFromPublicRules(g, depth, i + 1, r.tracker)
                  IN  [t EXCEPT !.val = StripEach(r.val) \o @,
                                !.started = <<NewTracker>> \o @]

\* DeterministicGenerator.generate, consumed to its end: val is the list of
\* the strings yielded before it ended or raised
Generate(g, depth, rule_name, tr) ==
    IF rule_name.given /\ rule_name.name # <<>>
    THEN LET rule == GetRule(g, rule_name.name)
         IN  IF rule = NoneVal
             THEN Call(Raised("GenerationError", rule_name.name, tr), <<>>)
             ELSE LET r == ProcessNode(g, depth, rule.expansion, tr)
                  IN  Call([r EXCEPT !.val = StripEach(@)], <<tr>>)
    ELSE GenerateFromPublicRules(g, depth, 1, tr)

\* the loop of generate() over the public rules from the i-th on, consumed
\* by generate_list: results holds count strings so far, and the loop is
\* left at the string that makes count reach limit (no limit when 0)
RECURSIVE GenerateListFromPublicRules(_, _, _, _, _, _)
GenerateListFromPublicRules(g, depth, i, tr, limit, count) ==
    IF i > Len(g.public_rules) THEN Returned(<<>>, tr)
    ELSE LET r == ProcessNode(g, depth, g.public_rules[i].expansion, NewTracker)
             strings == StripEach(r.val)
         IN  IF r.exc # "none" THEN r
             ELSE IF limit # 0 /\ count + Len(strings) >= limit
             THEN Returned(SubSeq(strings, 1, limit - count), r.tracker)
             ELSE LET t == GenerateListFromPublicRules(g, depth, i + 1, r.tracker,
                                                       limit, count + Len(strings))
                  IN  IF t.exc # "none" THEN t
                      ELSE [t EXCEPT !.val = strings \o @]

\* BaseGenerator.generate_list of a DeterministicGenerator whose config
\* has no max_results: the first limit strings of generate(rule_name), all
\* of them when limit is 0 or None
GenerateList(g, depth, rule_name, limit, tr) ==
    IF rule_name.given /\ rule_name.name # <<>>
    THEN LET r == Generate(g, depth, rule_name, tr)
         IN  IF r.exc # "none" THEN Raised(r.exc, r.rule, r.tracker)
             ELSE Returned(IF limit # 0 /\ Len(r.val) >= limit
                           THEN SubSeq(r.val, 1, limit) ELSE r.val,
                           r.tracker)
    ELSE GenerateListFromPublicRules(g, depth, 1, tr, limit, 0)

\* what the rules and public_rules properties return: a new container
\* with the items of the grammar's own (ref names the object it is)
CopyIsSame(ref, items) == [ref |-> ref, items |-> items]
Copy(ref, items) == [ref |-> "copy", items |-> items]

\* Grammar.rules
RulesProperty(g) == Copy("_rules", g.rules)

\* Grammar.public_rules
PublicRulesProperty(g) == Copy("_public_rules", g.public_rules)

\* the items of the list or dict after the i-th is removed
Removed(items, i) ==
    SubSeq(items, 1, i - 1) \o SubSeq(items, i + 1, Len(items))

-----------------------------------------------------------------------------
(* Weighted selection.  Weights are integers and a draw is the integer x   *)
(* that random.random() * total comes to, 0 <= x < total.                   *)

AccumNoCarry(listOfWeights) == listOfWeights

\* accum of weightedChoice, itertools.accumulate of random.choices: the
\* running sums of the weights
RECURSIVE Accum(_)
Accum(listOfWeights) ==
    IF Len(listOfWeights) <= 1 THEN listOfWeights
    ELSE LET front == Accum(SubSeq(listOfWeights, 1, Len(listOfWeights) - 1))
         IN  Append(front, front[Len(front)] + listOfWeights[Len(listOfWeights)])

BisectLeft(a, x, lo, hi) ==
    IF \E i \in (lo + 1)..hi : a[i] >= x
    THEN (CHOOSE i \in (lo + 1)..hi :
            a[i] >= x /\ \A j \in (lo + 1)..(i - 1) : a[j] < x) - 1
    ELSE hi

\* bisect.bisect(a, x, lo, hi), which is bisect_right: halving the range
\* [lo, hi) of 0-based indexes, going left when x < a[mid]
RECURSIVE Bisect(_, _, _, _)
Bisect(a, x, lo, hi) ==
    IF lo < hi
    THEN LET mid == (lo + hi) \div 2
         IN  IF x < a[mid + 1] THEN Bisect(a, x, lo, mid)
             ELSE Bisect(a, x, mid + 1, hi)
    ELSE lo

\* the draws random.random() * total can come to
Draws(total) == IF total > 0 THEN 0..(total - 1) ELSE {0}

\* ProbabilisticGenerator.weightedChoice of the legacy module, on the draw
\* x: the 0-based index of the tuple chosen
WeightedChoice(listOfTuples, x) ==
    LET weights == [i \in 1..Len(listOfTuples) |-> listOfTuples[i][2]]
        cumdist == Accum(weights)
        index == Bisect(cumdist, x, 0, Len(cumdist))
    IN  IF index >= Len(listOfTuples)
        THEN [exc |-> "IndexError", index |-> index]
        ELSE [exc |-> "none", index |-> index]

\* random.choices(choices, weights=weights, k=1) on the draw x, as
\* ProbabilisticGenerator._process_alternative calls it
RandomChoices(weights, x) ==
    LET cum_weights == Accum(weights)
        total == cum_weights[Len(cum_weights)]
    IN  IF total <= 0 THEN [exc |-> "ValueError", index |-> 0]
        ELSE [exc |-> "none",
              index |-> Bisect(cum_weights, x, 0, Len(weights) - 1)]

-----------------------------------------------------------------------------
(* jsgf/generators.py: ProbabilisticGenerator.  Every random draw is any   *)
(* of its outcomes, so a _process_* operator gives the set of the results   *)
(* the call can come to.                                                    *)

RECURSIVE PProcessNode(_, _, _, _), PSequenceLoop(_, _, _, _, _)

\* ProbabilisticGenerator._process_nonterminal
PProcessNonterminal(g, depth, node, tr) ==
    LET rule == GetRule(g, node.name)
    IN  IF rule = NoneVal THEN {Raised("GenerationError", node.name, tr)}
        ELSE LET c == EnterRule(tr, depth, node.name)
             IN  IF c.exc # "none" THEN {c}
                 ELSE {[r EXCEPT !.tracker = ExitRule(@, node.name)] :
                        r \in PProcessNode(g, depth, rule.expansion, c.tracker)}

\* the loop of ProbabilisticGenerator._process_sequence and its join
PSequenceLoop(g, depth, elements, parts, tr) ==
    IF elements = <<>> THEN {Returned(Join(<<SP>>, parts), tr)}
    ELSE UNION {IF r.exc # "none" THEN {r}
                ELSE PSequenceLoop(g, depth, Tail(elements),
                        IF Truthy(r.val) THEN Append(parts, r.val) ELSE parts,
                        r.tracker) :
                    r \in PProcessNode(g, depth, Head(elements), tr)}

PProcessSequenceLastOnly(g, depth, node, tr) ==
    IF node.elements = <<>> THEN {Returned(<<>>, tr)}
    ELSE PSequenceLoop(g, depth, <<node.elements[Len(node.elements)]>>, <<>>, tr)

\* ProbabilisticGenerator._process_sequence
PProcessSequence(g, depth, node, tr) ==
    IF node.elements = <<>> THEN {Returned(<<>>, tr)}
    ELSE PSequenceLoop(g, depth, node.elements, <<>>, tr)

\* ProbabilisticGenerator._process_alternative
PProcessAlternative(g, depth, node, tr) ==
    IF node.choices = <<>> THEN {Returned(<<>>, tr)}
    ELSE LET weights == [i \in 1..Len(node.choices) |-> node.choices[i][2]]
             total == Accum(weights)[Len(weights)]
         IN  UNION {LET c == RandomChoices(weights, x)
                    IN  IF c.exc # "none" THEN {Raised(c.exc, <<>>, tr)}
                        ELSE PProcessNode(g, depth,
                                          node.choices[c.index + 1][1], tr) :
                        x \in Draws(total)}

\* ProbabilisticGenerator._process_optional: random.random() < 0.5 or not
PProcessOptional(g, depth, node, tr) ==
    PProcessNode(g, depth, node.element, tr) \cup {Returned(<<>>, tr)}

\* BaseGenerator._process_node, in a ProbabilisticGenerator
PProcessNode(g, depth, node, tr) ==
    CASE node.kind = "Terminal" -> {Returned(node.value, tr)}
      [] node.kind = "NonTerminal" -> PProcessNonterminal(g, depth, node, tr)
      [] node.kind = "Sequence" -> PProcessSequence(g, depth, node, tr)
      [] node.kind = "Alternative" -> PProcessAlternative(g, depth, node, tr)
      [] node.kind = "Optional" -> PProcessOptional(g, depth, node, tr)
      [] node.kind = "Group" -> PProcessNode(g, depth, node.element, tr)
      [] OTHER -> {Raised("GenerationError", <<>>, tr)}

\* one pull of ProbabilisticGenerator.generate, which is generate_one: the
\* tracker is cleared, then one string is derived and stripped
PGenerate(g, depth, rule_name, tr) ==
    LET Pull(node) ==
            {Call([r EXCEPT !.val = strip(@, {SP})], <<NewTracker>>) :
                r \in PProcessNode(g, depth, node, NewTracker)}
    IN  IF rule_name.given /\ rule_name.name # <<>>
        THEN LET rule == GetRule(g, rule_name.name)
             IN  IF rule = NoneVal
                 THEN {Call(Raised("GenerationError", rule_name.name, NewTracker),
                            <<>>)}
                 ELSE Pull(rule.expansion)
        ELSE IF g.public_rules = <<>>
        THEN {Call(Raised("GenerationError", <<>>, NewTracker), <<>>)}
        ELSE IF Len(g.public_rules) > 1
        THEN Pull(AlternativeInit([i \in 1..Len(g.public_rules) |->
                                    Unweighted(g.public_rules[i].expansion)]))
        ELSE Pull(g.public_rules[1].expansion)

-----------------------------------------------------------------------------
(* DeterministicGenerator.py and ProbabilisticGenerator.py: the legacy      *)
(* module-level generators over the module's global grammar.  They have no  *)
(* recursion guard: stack counts the Python frames left before the          *)
(* interpreter's own limit ends the recursion with a RuntimeError.          *)

\* what a processRHS call comes to
LReturned(val) == [exc |-> "none", rule |-> <<>>, val |-> val]
LRaised(exc, rule) == [exc |-> exc, rule |-> rule, val |-> <<>>]

\* JSGFGrammar.Grammar.getRHS: the right-hand side of the first rule whose
\* left-hand side has the name, or ValueError
RECURSIVE getRHS(_, _)
getRHS(rs, nt) ==
    IF rs = <<>> THEN LRaised("ValueError", nt.name)
    ELSE IF Head(rs).lhs.name = nt.name THEN LReturned(Head(rs).rhs)
    ELSE getRHS(Tail(rs), nt)

\* one round of combineSets: itertools.product(totalCrossProduct, set), each
\* pair stripped, joined by a space and stripped
CombineTwo(totalCrossProduct, set) ==
    [k \in 1..(Len(totalCrossProduct) * Len(set)) |->
        LET a == totalCrossProduct[((k - 1) \div Len(set)) + 1]
            b == set[((k - 1) % Len(set)) + 1]
        IN  strip(strip(a, {SP}) \o <<SP>> \o strip(b, {SP}), {SP})]

\* combineSets, from the i-th set on
RECURSIVE combineSets(_, _, _)
combineSets(listOfSets, i, totalCrossProduct) ==
    IF i > Len(listOfSets) THEN totalCrossProduct
    ELSE combineSets(listOfSets, i + 1, CombineTwo(totalCrossProduct, listOfSets[i]))

\* the expressions of a Disjunction: the first of each tuple when the
\* disjuncts are (expression, weight) tuples
Disjuncts(disj) ==
    IF disj.disjuncts[1].kind = "tuple"
    THEN [i \in 1..Len(disj.disjuncts) |-> disj.disjuncts[i].node]
    ELSE disj.disjuncts

RECURSIVE processRHS(_, _, _), processEach(_, _, _)

\* the loops of processSequence and processDisjunction of
\* DeterministicGenerator.py: the lists of the components, up to the first
\* that raises
processEach(grammar, components, stack) ==
    IF components = <<>> THEN LReturned(<<>>)
    ELSE LET h == processRHS(grammar, Head(components), stack)
         IN  IF h.exc # "none" THEN h
             ELSE LET t == processEach(grammar, Tail(components), stack)
                  IN  IF t.exc # "none" THEN t
                      ELSE LReturned(<<h.val>> \o t.val)

\* DeterministicGenerator.processRHS with processSequence,
\* processDisjunction, processOptional and processNonTerminal
processRHS(grammar, rhs, stack) ==
    CASE rhs.kind = "list" ->
            LET r == processEach(grammar, rhs.items, stack)
            IN  IF r.exc # "none" THEN r
                ELSE LReturned(combineSets(r.val, 1, << <<>> >>))
      [] rhs.kind = "Disjunction" ->
            LET r == processEach(grammar, Disjuncts(rhs), stack)
            IN  IF r.exc # "none" THEN r ELSE LReturned(Extend(r.val))
      [] rhs.kind = "LOptional" ->
            LET r == processRHS(grammar, rhs.option, stack)
            IN  IF r.exc # "none" THEN r ELSE LReturned(<< <<>> >> \o r.val)
      [] rhs.kind = "LNonTerminal" ->
            LET d == getRHS(grammar.rules, rhs)
            IN  IF d.exc # "none" THEN d
                ELSE IF stack = 0 THEN LRaised("RuntimeError", rhs.name)
                ELSE processRHS(grammar, d.val, stack - 1)
      [] rhs.kind = "str" -> LReturned(<<rhs.value>>)
      [] OTHER -> LRaised("TypeError", <<>>)

RECURSIVE PprocessRHS(_, _, _), PprocessSequence(_, _, _, _)

\* ProbabilisticGenerator.processSequence, from the components left
PprocessSequence(grammar, seq, componentSets, stack) ==
    IF seq = <<>> THEN {LReturned(Join(<<SP>>, componentSets))}
    ELSE UNION {IF r.exc # "none" THEN {r}
                ELSE LET expandedComponent == strip(r.val, {SP})
                     IN  PprocessSequence(grammar, Tail(seq),
                            IF Len(expandedComponent) > 0
                            THEN Append(componentSets, expandedComponent)
                            ELSE componentSets, stack) :
                    r \in PprocessRHS(grammar, Head(seq), stack)}

\* ProbabilisticGenerator.processDisjunction on every draw: weightedChoice
\* over (expression, weight) tuples, random.choice otherwise
PprocessDisjunction(grammar, disj, stack) ==
    IF disj.disjuncts[1].kind = "tuple"
    THEN LET listOfTuples == [i \in 1..Len(disj.disjuncts) |->
                                <<disj.disjuncts[i].node, disj.disjuncts[i].weight>>]
             total == Accum([i \in 1..Len(listOfTuples) |->
                                listOfTuples[i][2]])[Len(listOfTuples)]
         IN  UNION {LET c == WeightedChoice(listOfTuples, x)
                    IN  IF c.exc # "none" THEN {LRaised(c.exc, <<>>)}
                        ELSE PprocessRHS(grammar, listOfTuples[c.index + 1][1], stack) :
                        x \in Draws(total)}
    ELSE UNION {PprocessRHS(grammar, disj.disjuncts[i], stack) :
                    i \in 1..Len(disj.disjuncts)}

\* ProbabilisticGenerator.processRHS with processOptional and
\* processNonTerminal
PprocessRHS(grammar, rhs, stack) ==
    CASE rhs.kind = "list" -> PprocessSequence(grammar, rhs.items, <<>>, stack)
      [] rhs.kind = "Disjunction" -> PprocessDisjunction(grammar, rhs, stack)
      [] rhs.kind = "LOptional" ->
            {LReturned(<<>>)} \cup PprocessRHS(grammar, rhs.option, stack)
      [] rhs.kind = "LNonTerminal" ->
            LET d == getRHS(grammar.rules, rhs)
            IN  IF d.exc # "none" THEN {d}
                ELSE IF stack = 0 THEN {LRaised("RuntimeError", rhs.name)}
                ELSE PprocessRHS(grammar, d.val, stack - 1)
      [] rhs.kind = "str" -> {LReturned(rhs.value)}
      [] OTHER -> {LRaised("AttributeError", <<>>)}

-----------------------------------------------------------------------------
\* the Grammar instance of the state
Self == Grammar(rules, public_rules)

-----------------------------------------------------------------------------
(* Calls on the Grammar instance *)

add_rule(rule) ==
    /\ Len(rules) < MaxRules \/ HasKey(rules, rule.name)
    /\ LET r == AddRule(Self, rule) IN
        /\ rules' = r.g.rules
        /\ public_rules' = r.g.public_rules
        /\ ret' = [op |-> "add_rule", arg |-> rule, exc |-> r.exc, val |-> NoneVal]
    /\ UNCHANGED <<file, gen>>

get_rule(name) ==
    /\ ret' = [op |-> "get_rule", arg |-> name, exc |-> "none",
               val |-> GetRule(Self, name)]
    /\ UNCHANGED <<rules, public_rules, file, gen>>

validate ==
    /\ LET r == Validate(Self) IN
        ret' = [op |-> "validate", arg |-> NoneVal, exc |-> r.exc,
                val |-> r.errors]
    /\ UNCHANGED <<rules, public_rules, file, gen>>

detect_cycles ==
    /\ LET r == DetectCycles(Self) IN
        ret' = [op |-> "detect_cycles", arg |-> NoneVal, exc |-> r.exc,
                val |-> [cycles |-> r.cycles, entered |-> r.entered]]
    /\ UNCHANGED <<rules, public_rules, file, gen>>

is_recursive(rule_name) ==
    /\ ret' = [op |-> "is_recursive", arg |-> rule_name,
               exc |-> DetectCycles(Self).exc,
               val |-> IsRecursive(Self, rule_name)]
    /\ UNCHANGED <<rules, public_rules, file, gen>>

\* Grammar.from_string on the text of the file
from_string ==
    /\ file.exists
    /\ LET r == FromString(file.text) IN
        ret' = [op |-> "from_string", arg |-> file, exc |-> r.exc, val |-> r.val]
    /\ UNCHANGED <<rules, public_rules, file, gen>>

\* Grammar.from_stream on the opened file
from_stream ==
    /\ file.exists
    /\ LET r == FromStream(file.text) IN
        ret' = [op |-> "from_stream", arg |-> file, exc |-> r.exc, val |-> r.val]
    /\ UNCHANGED <<rules, public_rules, file, gen>>

\* Grammar.from_file on the path
from_file ==
    /\ LET r == FromFile(file) IN
        ret' = [op |-> "from_file", arg |-> file, exc |-> r.exc, val |-> r.val]
    /\ UNCHANGED <<rules, public_rules, file, gen>>

\* ProbabilisticGenerator.generate(rule_name): the call returns the
\* generator object and runs nothing of its body
generate_sequence(rule_name) ==
    /\ ret' = [op |-> "generate sequence", arg |-> rule_name, exc |-> "none",
               val |-> [finished |-> FALSE, string |-> <<>>, rule |-> <<>>]]
    /\ UNCHANGED <<rules, public_rules, file, gen>>

\* next() on the generator object that the last call returned or pulled
\* from: the body runs to its next yield; an exception that leaves the
\* body finishes the generator, and next() on a finished generator raises
\* StopIteration
next_pull ==
    /\ ret.op \in {"generate sequence", "next"}
    /\ IF ret.val.finished
       THEN /\ ret' = [op |-> "next", arg |-> ret.arg, exc |-> "StopIteration",
                       val |-> [finished |-> TRUE, string |-> <<>>, rule |-> <<>>]]
            /\ UNCHANGED ptracker
       ELSE \E r \in PGenerate(Self, max_recursion_depth, ret.arg, ptracker) :
                /\ ptracker' = r.tracker
                /\ ret' = [op |-> "next", arg |-> ret.arg, exc |-> r.exc,
                           val |-> [finished |-> r.exc # "none",
                                    string |-> r.val, rule |-> r.rule]]
    /\ UNCHANGED <<rules, public_rules, file, max_recursion_depth, tracker, conc>>

\* --max-results: not given, or a number
NoMax == [given |-> FALSE]
MaxOf(m) == [given |-> TRUE, m |-> m]

\* cli.deterministic_command on the file, with --rule, --max-results and
\* --max-recursion: the grammar is loaded, a warning is printed when no
\* rule is named and the grammar is recursive, max_results goes into the
\* GeneratorConfig of a new DeterministicGenerator, and every string that
\* generate(rule) yields is printed; a JSGFError or FileNotFoundError ends
\* the command with exit status 1
deterministic_command(rule, max_results, max_recursion) ==
    /\ LET loaded == FromFile(file)
           r == Generate(loaded.val, max_recursion, rule, NewTracker)
       IN  ret' = [op |-> "deterministic_command",
                   arg |-> [file |-> file, rule |-> rule,
                            max_results |-> max_results,
                            max_recursion |-> max_recursion],
                   exc |-> IF loaded.exc # "none" \/ r.exc # "none"
                           THEN "SystemExit" ELSE "none",
                   val |-> IF loaded.exc # "none"
                           THEN [written |-> <<>>, warned |-> FALSE]
                           ELSE [written |-> r.val,
                                 warned |-> ~(rule.given /\ rule.name # <<>>)
                                            /\ IsRecursive(loaded.val, NoName)]]
    /\ UNCHANGED <<rules, public_rules, file, gen>>

\* the file is created, or a definition is written at its end
write_definition(d) ==
    /\ file' = IF file.exists THEN File(Append(file.text, d)) ELSE File(<<>>)
    /\ file.exists => Len(file.text) < MaxDefs
    /\ UNCHANGED <<rules, public_rules, gen, ret>>

\* a line is written at the end of the file
write_line(line) ==
    /\ file.exists
    /\ Len(file.text) < MaxLines
    /\ file' = File(Append(file.text, line))
    /\ UNCHANGED <<rules, public_rules, gen, ret>>

\* JSGFParser.getGrammarObject on the opened file
parse_file ==
    /\ file.exists
    /\ LET r == getGrammarObjectOfLines(file.text) IN
        ret' = [op |-> "getGrammarObject", arg |-> file, exc |-> r.exc,
                val |-> r.val]
    /\ UNCHANGED <<rules, public_rules, file, gen>>

\* Grammar.from_string on the text of the file
from_string_of_lines ==
    /\ file.exists
    /\ LET r == FromStringOfLines(file.text) IN
        ret' = [op |-> "from_string of lines", arg |-> file, exc |-> r.exc,
                val |-> [line |-> r.line, grammar |-> r.val]]
    /\ UNCHANGED <<rules, public_rules, file, gen>>

\* Grammar.from_string on the text of the file, twice: every call builds
\* its nodes anew, so no node of one grammar is an object of the other
from_string_twice ==
    /\ file.exists
    /\ LET first == FromStringOfLines(file.text)
           second == FromStringOfLines(file.text)
       IN  ret' = [op |-> "from_string twice", arg |-> file,
                   exc |-> IF first.exc # "none" THEN first.exc ELSE second.exc,
                   val |-> [first |-> first.val, second |-> second.val]]
    /\ UNCHANGED <<rules, public_rules, file, gen>>

\* DeterministicGenerator.generate(rule_name), consumed to its end
generate(rule_name) ==
    /\ \A k \in DOMAIN tracker : tracker[k] <= MaxResidue
    /\ LET r == Generate(Self, max_recursion_depth, rule_name, tracker) IN
        /\ tracker' = r.tracker
        /\ ret' = [op |-> "generate", arg |-> rule_name, exc |-> r.exc,
                   val |-> [yielded |-> r.val, rule |-> r.rule,
                            started |-> r.started]]
    /\ UNCHANGED <<rules, public_rules, file, max_recursion_depth, ptracker, conc>>

\* ProbabilisticGenerator.generate_one(rule_name): one pull of generate
generate_one(rule_name) ==
    /\ \E r \in PGenerate(Self, max_recursion_depth, rule_name, ptracker) :
        /\ ptracker' = r.tracker
        /\ ret' = [op |-> "generate_one", arg |-> rule_name, exc |-> r.exc,
                   val |-> [string |-> r.val, rule |-> r.rule,
                            started |-> r.started]]
    /\ UNCHANGED <<rules, public_rules, file, max_recursion_depth, tracker, conc>>

\* DeterministicGenerator.generate_list(rule_name, limit)
generate_list(rule_name, limit) ==
    /\ \A k \in DOMAIN tracker : tracker[k] <= MaxResidue
    /\ LET r == GenerateList(Self, max_recursion_depth, rule_name, limit, tracker) IN
        /\ tracker' = r.tracker
        /\ ret' = [op |-> "generate_list", arg |-> [rule_name |-> rule_name,
                                                    limit |-> limit],
                   exc |-> r.exc, val |-> r.val]
    /\ UNCHANGED <<rules, public_rules, file, max_recursion_depth, ptracker, conc>>

\* grammar.rules
rules_property ==
    /\ ret' = [op |-> "rules", arg |-> NoneVal, exc |-> "none",
               val |-> RulesProperty(Self)]
    /\ UNCHANGED <<rules, public_rules, file, gen>>

\* grammar.public_rules
public_rules_property ==
    /\ ret' = [op |-> "public_rules", arg |-> NoneVal, exc |-> "none",
               val |-> PublicRulesProperty(Self)]
    /\ UNCHANGED <<rules, public_rules, file, gen>>

\* the caller changes the container a property returned to the given
\* items: every holder of that object sees the change
container_set(items) ==
    /\ ret.op \in {"rules", "public_rules"}
    /\ ret' = [ret EXCEPT !.val.items = items]
    /\ rules' = IF ret.val.ref = "_rules" THEN items ELSE rules
    /\ public_rules' = IF ret.val.ref = "_public_rules" THEN items
                       ELSE public_rules
    /\ UNCHANGED <<file, gen>>

\* the caller adds a rule to the container a property returned
container_add(rule) ==
    /\ ret.op \in {"rules", "public_rules"}
    /\ Len(ret.val.items) <= MaxRules
    /\ ~HasKey(ret.val.items, rule.name)
    /\ container_set(Append(ret.val.items, rule))

\* the caller removes the i-th item of the container a property returned
container_remove(i) ==
    /\ ret.op \in {"rules", "public_rules"}
    /\ i \in 1..Len(ret.val.items)
    /\ container_set(Removed(ret.val.items, i))

\* The calls of concurrent callers, a step at a time.  A caller's call
\* is one pull of ProbabilisticGenerator.generate on the generator
\* instances[c.instance]; its todo is what is left of the derivation: the
\* nodes still to process and the _exit_rule calls of the finally blocks
\* it is inside of.
NodeItem(node) == [item |-> "node", node |-> node]
ExitItem(name) == [item |-> "exit", name |-> name]
NoOutcome == [exc |-> "none", rule |-> <<>>, nesting |-> 0]

\* the rule entries of the caller's call that have not been exited
Pending(c, name) ==
    Cardinality({i \in 1..Len(c.todo) : c.todo[i] = ExitItem(name)})

\* a pull that keeps the counters of the pull before it
pullKeepsCounters(t, rule_name) ==
    /\ callers[t].pc \in {"idle", "failed"}
    /\ UNCHANGED instances
    /\ LET rule == GetRule(Self, rule_name) IN
        callers' = [callers EXCEPT ![t] =
            IF rule = NoneVal
            THEN [@ EXCEPT !.pc = "failed",
                           !.last = [exc |-> "GenerationError", rule |-> rule_name,
                                     nesting |-> 0]]
            ELSE [@ EXCEPT !.pc = "running",
                           !.todo = <<NodeItem(rule.expansion)>>]]
    /\ UNCHANGED <<rules, public_rules, file, max_recursion_depth, tracker,
                   ptracker, ret>>

\* the start of a pull: the tracker is cleared, then the rule is looked up
pull(t, rule_name) ==
    /\ callers[t].pc \in {"idle", "failed"}
    /\ instances' = [instances EXCEPT ![callers[t].instance] = NewTracker]
    /\ LET rule == GetRule(Self, rule_name) IN
        callers' = [callers EXCEPT ![t] =
            IF rule = NoneVal
            THEN [@ EXCEPT !.pc = "failed",
                           !.last = [exc |-> "GenerationError", rule |-> rule_name,
                                     nesting |-> 0]]
            ELSE [@ EXCEPT !.pc = "running",
                           !.todo = <<NodeItem(rule.expansion)>>]]
    /\ UNCHANGED <<rules, public_rules, file, max_recursion_depth, tracker,
                   ptracker, ret>>

\* what processing the node at the head of the todo list leaves: the
\* tracker, the todo list and the exception raised, one for every draw
StepsOf(c, tr, depth) ==
    LET node == Head(c.todo).node
        rest == Tail(c.todo)
        Go(todo) == [tracker |-> tr, todo |-> todo, exc |-> "none", rule |-> <<>>]
    IN  CASE node.kind = "Terminal" -> {Go(rest)}
          [] node.kind = "NonTerminal" ->
                LET rule == GetRule(Self, node.name) IN
                IF rule = NoneVal
                THEN {[tracker |-> tr, todo |-> rest, exc |-> "GenerationError",
                       rule |-> node.name]}
                ELSE LET e == EnterRule(tr, depth, node.name) IN
                     IF e.exc # "none"
                     THEN {[tracker |-> e.tracker, todo |-> rest, exc |-> e.exc,
                            rule |-> node.name]}
                     ELSE {[tracker |-> e.tracker,
                            todo |-> <<NodeItem(rule.expansion), ExitItem(node.name)>>
                                        \o rest,
                            exc |-> "none", rule |-> <<>>]}
          [] node.kind = "Sequence" ->
                {Go([i \in 1..Len(node.elements) |-> NodeItem(node.elements[i])]
                        \o rest)}
          [] node.kind = "Alternative" ->
                IF node.choices = <<>> THEN {Go(rest)}
                ELSE LET weights == [i \in 1..Len(node.choices) |-> node.choices[i][2]]
                     IN  {LET sel == RandomChoices(weights, x) IN
                          IF sel.exc # "none"
                          THEN [tracker |-> tr, todo |-> rest, exc |-> sel.exc,
                                rule |-> <<>>]
                          ELSE Go(<<NodeItem(node.choices[sel.index + 1][1])>> \o rest) :
                            x \in Draws(Accum(weights)[Len(weights)])}
          [] node.kind = "Optional" -> {Go(<<NodeItem(node.element)>> \o rest), Go(rest)}
          [] node.kind = "Group" -> {Go(<<NodeItem(node.element)>> \o rest)}

\* the next step of a running call: a node is processed, or a finally
\* block runs _exit_rule, or the pull returns
step(t) ==
    LET c == callers[t]
        tr == instances[c.instance]
    IN  /\ c.pc = "running"
        /\ IF c.todo = <<>>
           THEN /\ callers' = [callers EXCEPT ![t] =
                        [@ EXCEPT !.pc = "idle", !.last = NoOutcome]]
                /\ UNCHANGED instances
           ELSE IF Head(c.todo).item = "exit"
           THEN /\ instances' = [instances EXCEPT ![c.instance] =
                                    ExitRule(tr, Head(c.todo).name)]
                /\ callers' = [callers EXCEPT ![t] = [@ EXCEPT !.todo = Tail(@)]]
           ELSE /\ Head(c.todo).node.kind = "NonTerminal" =>
                        Pending(c, Head(c.todo).node.name) < MaxNesting
                /\ \E r \in StepsOf(c, tr, max_recursion_depth) :
                    /\ instances' = [instances EXCEPT ![c.instance] = r.tracker]
                    /\ callers' = [callers EXCEPT ![t] =
                            IF r.exc = "none" THEN [@ EXCEPT !.todo = r.todo]
                            ELSE [@ EXCEPT !.pc = "raising", !.todo = r.todo,
                                           !.last = [exc |-> r.exc, rule |-> r.rule,
                                                     nesting |->
                                                        Pending(c, r.rule) + 1]]]
        /\ UNCHANGED <<rules, public_rules, file, max_recursion_depth, tracker,
                       ptracker, ret>>

\* the exception of a call leaves through the finally blocks it is inside
\* of, the innermost first
unwind(t) ==
    LET c == callers[t]
        exits == SelectSeq(c.todo, LAMBDA i : i.item = "exit")
    IN  /\ c.pc = "raising"
        /\ IF exits = <<>>
           THEN /\ callers' = [callers EXCEPT ![t] =
                        [@ EXCEPT !.pc = "failed", !.todo = <<>>]]
                /\ UNCHANGED instances
           ELSE /\ instances' = [instances EXCEPT ![c.instance] =
                        ExitRule(instances[c.instance], Head(exits).name)]
                /\ callers' = [callers EXCEPT ![t] = [@ EXCEPT !.todo = Tail(exits)]]
        /\ UNCHANGED <<rules, public_rules, file, max_recursion_depth, tracker,
                       ptracker, ret>>

\* ProbabilisticGenerator.weightedChoice (legacy) when the draw is x
weightedChoice(listOfTuples, x) ==
    /\ LET r == WeightedChoice(listOfTuples, x) IN
        ret' = [op |-> "weightedChoice",
                arg |-> [choices |-> listOfTuples, x |-> x],
                exc |-> r.exc, val |-> r.index]
    /\ UNCHANGED <<rules, public_rules, file, gen>>

\* the selection of ProbabilisticGenerator._process_alternative on the node
\* Alternative(choices) when the draw is x
select_alternative(choices, x) ==
    /\ LET node == AlternativeInit(choices)
           weights == [i \in 1..Len(node.choices) |-> node.choices[i][2]]
           r == RandomChoices(weights, x)
       IN  ret' = [op |-> "select_alternative",
                   arg |-> [choices |-> choices, x |-> x],
                   exc |-> r.exc, val |-> r.index]
    /\ UNCHANGED <<rules, public_rules, file, gen>>

\* DeterministicGenerator.processRHS on the right-hand side of the k-th
\* public rule, the module's grammar parsed from the file
det_processRHS(k) ==
    /\ file.exists
    /\ LET grammar == getGrammarObject(file.text) IN
        /\ k \in 1..Len(grammar.publicRules)
        /\ LET r == processRHS(grammar, grammar.publicRules[k].rhs, MaxStack) IN
            ret' = [op |-> "det_processRHS", arg |-> [file |-> file, k |-> k],
                    exc |-> r.exc, val |-> [strings |-> r.val, rule |-> r.rule]]
    /\ UNCHANGED <<rules, public_rules, file, gen>>

\* ProbabilisticGenerator.processRHS on the same
prob_processRHS(k) ==
    /\ file.exists
    /\ LET grammar == getGrammarObject(file.text) IN
        /\ k \in 1..Len(grammar.publicRules)
        /\ \E r \in PprocessRHS(grammar, grammar.publicRules[k].rhs, MaxStack) :
            ret' = [op |-> "prob_processRHS", arg |-> [file |-> file, k |-> k],
                    exc |-> r.exc, val |-> [string |-> r.val, rule |-> r.rule]]
    /\ UNCHANGED <<rules, public_rules, file, gen>>

\* what both enumerators give for the k-th public rule of a parsed legacy
\* grammar: processRHS of DeterministicGenerator.py on the rule body, and
\* jsgf DeterministicGenerator.generate on the grammar LegacyAdapter
\* converts, consumed to its end
EnumeratedFrom(parsed, k, depth) ==
    LET grammar == parsed.val
        legacy == processRHS(grammar, grammar.publicRules[k].rhs, MaxStack)
        converted == AddConverted(grammar, EmptyGrammar, 1)
        jsgf == Generate(converted.g, depth,
                         Name(grammar.publicRules[k].lhs.name), NewTracker)
    IN  [grammar |-> grammar,
         rule |-> grammar.publicRules[k].lhs.name,
         legacy |-> [exc |-> legacy.exc, strings |-> legacy.val],
         jsgf |-> IF converted.exc # "none"
                  THEN [exc |-> "ParseError", strings |-> <<>>]
                  ELSE [exc |-> jsgf.exc, strings |-> jsgf.val]]

\* both enumerations of the k-th public rule of the file's grammar
enumerate_both(k) ==
    /\ file.exists
    /\ LET parsed == getGrammarObjectOfLines(file.text) IN
        /\ parsed.exc = "none"
        /\ k \in 1..Len(parsed.val.publicRules)
        /\ ret' = [op |-> "enumerate both", arg |-> [file |-> file, k |-> k],
                   exc |-> "none",
                   val |-> EnumeratedFrom(parsed, k, max_recursion_depth)]
    /\ UNCHANGED <<rules, public_rules, file, gen>>

-----------------------------------------------------------------------------
(* The rule table driven through its interface, rule names in both         *)
(* spellings                                                               *)

ApiRuleNames == {BareName("a"), Bracketed("a"), Bracketed("b")}
ApiLookupNames == ApiRuleNames \cup {BareName("b")}
\* expansion and is_public of the rules added
ApiBodies ==
    { <<Terminal(<<"t">>), TRUE>>,
      <<Terminal(<<"t">>), FALSE>>,
      <<NonTerminal(BareName("a")), TRUE>>,
      <<Sequence(<<Terminal(<<"t">>),
                   OptionalNode(Group(NonTerminal(Bracketed("m"))))>>), FALSE>>,
      <<Alternative(<< <<NonTerminal(Bracketed("b")), 1>>,
                       <<Sequence(<<NonTerminal(Bracketed("m")),
                                    NonTerminal(Bracketed("n"))>>), 2>> >>),
        TRUE>> }
ApiRules == {Rule(n, b[1], b[2]) : n \in ApiRuleNames, b \in ApiBodies}

Init ==
    /\ rules = <<>>
    /\ public_rules = <<>>
    /\ file = NoFile
    /\ max_recursion_depth = DefaultMaxRecursionDepth
    /\ tracker = NewTracker
    /\ ptracker = NewTracker
    /\ instances = <<>>
    /\ callers = <<>>
    /\ ret = [op |-> "init", arg |-> NoneVal, exc |-> "none", val |-> NoneVal]

Next ==
    \/ \E rule \in ApiRules : add_rule(rule)
    \/ \E name \in ApiLookupNames : get_rule(name)
    \/ validate

Spec == Init /\ [][Next]_vars

-----------------------------------------------------------------------------
(* Properties of the rule table *)

\* the identifier a rule name denotes, whichever way it is spelled
Ident(name) == strip(name, {LT, GT})

IsPublic(r) == r.is_public

C2_SpellingsDenoteSameRule ==
    /\ \A i \in 1..Len(rules) :
        /\ GetRule(Self, <<Ident(rules[i].name)[1]>>) = rules[i]
        /\ GetRule(Self, <<LT, Ident(rules[i].name)[1], GT>>) = rules[i]
    /\ \A i, j \in 1..Len(rules) :
        i # j => Ident(rules[i].name) # Ident(rules[j].name)
    /\ ret.op = "get_rule" =>
        /\ ret.exc = "none"
        /\ (\A i \in 1..Len(rules) : Ident(rules[i].name) # Ident(ret.arg))
              => ret.val = NoneVal

\* C3: public_rules is exactly the stored rules flagged public, each once,
\* in insertion order (so every entry of public_rules is a value of rules),
\* after any sequence of successful and failed add_rule calls.
C3_PublicRulesInOrder ==
    public_rules = SelectSeq(rules, IsPublic)

\* two public rules with a private one between them, and a refused insertion
C3_Witness ==
    /\ Len(rules) = 3
    /\ rules[1].is_public /\ ~rules[2].is_public /\ rules[3].is_public
    /\ ret.op = "add_rule" /\ ret.exc = "ValueError" /\ ret.arg.is_public

\* the names of the NonTerminals under a node, at any nesting depth
RECURSIVE NonTerminalsOf(_)
NonTerminalsOf(n) ==
    CASE n.kind = "NonTerminal" -> {n.name}
      [] n.kind = "Sequence" ->
            UNION {NonTerminalsOf(n.elements[i]) : i \in 1..Len(n.elements)}
      [] n.kind = "Alternative" ->
            UNION {NonTerminalsOf(n.choices[i][1]) : i \in 1..Len(n.choices)}
      [] n.kind \in {"Optional", "Group"} -> NonTerminalsOf(n.element)
      [] OTHER -> {}

Range(seq) == {seq[i] : i \in 1..Len(seq)}

\* a name names a rule when some stored rule denotes the same identifier
NamesARule(rs, name) == \E j \in 1..Len(rs) : Ident(rs[j].name) = Ident(name)

\* the names under rule i's expansion that name no rule
UndefinedNames(rs, i) ==
    {nm \in NonTerminalsOf(rs[i].expansion) : ~NamesARule(rs, nm)}

\* C4: validate raises ValidationError exactly when some rule's expansion
\* holds, at any depth, a NonTerminal that names no rule, or there is no
\* public rule; the one error lists every rule with undefined references
\* together with each of its undefined names, and the no-public-rule failure
\* too when it applies; otherwise validate returns; it changes no state.
C4_Validate ==
    [][ret'.op = "validate" =>
        /\ rules' = rules
        /\ public_rules' = public_rules
        /\ LET bad == {i \in 1..Len(rules) : UndefinedNames(rules, i) # {}}
               errors == ret'.val
           IN  /\ ret'.exc = IF bad # {} \/ public_rules = <<>>
                             THEN "ValidationError" ELSE "none"
               /\ ret'.exc = "ValidationError" =>
                    /\ \A i \in bad : \E k \in 1..Len(errors) :
                            /\ errors[k].error = "undefined"
                            /\ errors[k].rule = rules[i].name
                            /\ UndefinedNames(rules, i) \subseteq Range(errors[k].refs)
                    /\ public_rules = <<>> =>
                            \E k \in 1..Len(errors) : errors[k].error = "no_public"
       ]_vars

-----------------------------------------------------------------------------
(* Loading: source texts of up to MaxDefs well-formed definitions           *)

LoadDefs ==
    { Definition(TRUE, Bracketed("s"), LList(<<LStr(<<"h">>)>>)),
      Definition(FALSE, Bracketed("s"), LList(<<LNonTerminal(Bracketed("m"))>>)),
      Definition(TRUE, Bracketed("t"),
                 LList(<<LNonTerminal(Bracketed("s")),
                         LOptional(LStr(<<"w">>))>>)),
      Definition(FALSE, Bracketed("t"),
                 LList(<<LDisjunction(<<LTuple(LStr(<<"h">>), 5),
                                        LTuple(LNonTerminal(Bracketed("m")), 1)>>)>>)),
      Definition(FALSE, Bracketed("u"),
                 LList(<<LDisjunction(<<LStr(<<"h">>),
                                        LList(<<LStr(<<"w">>),
                                                LNonTerminal(Bracketed("s"))>>)>>)>>)) }

NextLoad ==
    \/ \E d \in LoadDefs : write_definition(d)
    \/ from_string
    \/ from_stream
    \/ from_file

SpecLoad == Init /\ [][NextLoad]_vars

\* a grammar that satisfies validation: it has a public rule and every
\* NonTerminal under every rule names a rule
Validated(g) ==
    /\ g.public_rules # <<>>
    /\ \A i \in 1..Len(g.rules) : UndefinedNames(g.rules, i) = {}

\* the grammar holds one rule for each definition of the source, in order
BuiltFrom(g, src) ==
    /\ Len(g.rules) = Len(src)
    /\ \A i \in 1..Len(src) :
        /\ g.rules[i].name = src[i].name
        /\ g.rules[i].is_public = src[i].public
    /\ g.public_rules = SelectSeq(g.rules, IsPublic)

\* C5: from_string and from_stream either return a Grammar built from the
\* whole source that satisfies validation (a public rule exists, every
\* referenced nonterminal is defined), or raise and return nothing.
C5_ValidatedOrNothing ==
    ret.op \in {"from_string", "from_stream"} =>
        IF ret.exc = "none"
        THEN /\ ret.val # NoneVal
             /\ Validated(ret.val)
             /\ BuiltFrom(ret.val, ret.arg.text)
        ELSE ret.val = NoneVal

\* a source of three definitions was loaded, one rule referring to another
C5_Witness ==
    /\ ret.op = "from_string"
    /\ ret.exc = "none"
    /\ Len(ret.val.rules) = 3
    /\ \E i \in 1..3 : NonTerminalsOf(ret.val.rules[i].expansion) # {}

\* no two definitions of the source have the same rule name
DistinctNames(src) ==
    \A i, j \in 1..Len(src) : i # j => src[i].name # src[j].name

\* the source's only defect is an undefined reference or a missing public
\* rule
OnlyValidationDefect(src) ==
    /\ DistinctNames(src)
    /\ \/ \A i \in 1..Len(src) : ~src[i].public
       \/ \E i \in 1..Len(src) :
            \E nm \in NonTerminalsOf(ConvertExpansion(src[i].rhs)) :
                \A j \in 1..Len(src) : src[j].name # nm

\* C6: a well-formed source whose only defect is an undefined reference or
\* the absence of a public rule fails with ValidationError through
\* from_string, from_stream and from_file alike.
C6_ValidationErrorEverywhere ==
    (/\ ret.op \in {"from_string", "from_stream", "from_file"}
     /\ ret.arg.exists
     /\ OnlyValidationDefect(ret.arg.text))
        => ret.exc = "ValidationError"

-----------------------------------------------------------------------------
(* Cycle detection: grammars of up to MaxRules rules that refer to each     *)
(* other                                                                    *)

CycRuleNames == {Bracketed("a"), Bracketed("b"), Bracketed("c")}
CycExpansions ==
    { Terminal(<<"t">>),
      NonTerminal(Bracketed("a")),
      NonTerminal(Bracketed("b")),
      NonTerminal(Bracketed("m")),
      Sequence(<<NonTerminal(Bracketed("b")),
                 OptionalNode(NonTerminal(Bracketed("c")))>>),
      Alternative(<< <<Terminal(<<"t">>), 1>>,
                     <<Group(NonTerminal(Bracketed("c"))), 2>> >>) }
CycRules == {Rule(n, e, TRUE) : n \in CycRuleNames, e \in CycExpansions}
CycArgs == {NoName, Name(BareName("a")), Name(Bracketed("b")), Name(Bracketed("c"))}

NextCycles ==
    \/ \E rule \in CycRules : add_rule(rule)
    \/ detect_cycles
    \/ \E rule_name \in CycArgs : is_recursive(rule_name)

SpecCycles == Init /\ [][NextCycles]_vars

\* The rule-dependency graph: an edge from each rule name to every name its
\* expansion refers to
Edges(rs) ==
    UNION {{<<rs[i].name, nm>> : nm \in NonTerminalsOf(rs[i].expansion)} :
                i \in 1..Len(rs)}

Successors(E, S) == {e[2] : e \in {d \in E : d[1] \in S}}

RECURSIVE Closure(_, _)
Closure(E, S) ==
    LET T == S \cup Successors(E, S) IN IF T = S THEN S ELSE Closure(E, T)

\* the names reachable from n through one or more references
ReachableFrom(E, n) == Closure(E, Successors(E, {n}))

OnCycle(E, n) == n \in ReachableFrom(E, n)

HasCycle(rs) == \E i \in 1..Len(rs) : OnCycle(Edges(rs), rs[i].name)

\* C7: detect_cycles returns a non-empty list exactly when the dependency
\* graph has a directed cycle (self-reference included), and is_recursive()
\* is true exactly then; every returned list starts and ends with the same
\* name and each consecutive pair is a direct reference; every group of
\* mutually reachable rules has a member in some returned cycle; each rule
\* is visited at most once and nothing is raised.
C7_DetectCycles ==
    LET E == Edges(rules) IN
    /\ ret.op = "detect_cycles" =>
        LET cycles == ret.val.cycles
            entered == ret.val.entered
        IN  /\ ret.exc = "none"
            /\ (cycles # <<>>) <=> HasCycle(rules)
            /\ \A k \in 1..Len(cycles) :
                /\ Len(cycles[k]) >= 2
                /\ cycles[k][1] = cycles[k][Len(cycles[k])]
                /\ \A i \in 1..(Len(cycles[k]) - 1) :
                        <<cycles[k][i], cycles[k][i + 1]>> \in E
            /\ \A i \in 1..Len(rules) :
                OnCycle(E, rules[i].name) =>
                    \E k \in 1..Len(cycles) : \E x \in Range(cycles[k]) :
                        /\ x \in ReachableFrom(E, rules[i].name)
                        /\ rules[i].name \in ReachableFrom(E, x)
            /\ \A i, j \in 1..Len(entered) : i # j => entered[i] # entered[j]
    /\ (ret.op = "is_recursive" /\ ~ret.arg.given) =>
        /\ ret.exc = "none"
        /\ ret.val = HasCycle(rules)

\* <a> and <b> refer to each other, a third rule leads into the cycle, and a
\* returned cycle contains both
C7_Witness ==
    /\ ret.op = "detect_cycles"
    /\ Len(rules) = 3
    /\ \E k \in 1..Len(ret.val.cycles) :
        {Bracketed("a"), Bracketed("b")} \subseteq Range(ret.val.cycles[k])
    /\ \E i \in 1..3 : ~OnCycle(Edges(rules), rules[i].name)

\* C8: is_recursive(rule_name) is true exactly when the named rule can reach
\* itself through one or more references, for every rule of every grammar
\* in any insertion order; it is false for a rule that only leads into a
\* cycle.
C8_IsRecursiveOfRule ==
    (ret.op = "is_recursive" /\ ret.arg.given) =>
        ret.val = OnCycle(Edges(rules), <<LT>> \o Ident(ret.arg.name) \o <<GT>>)

-----------------------------------------------------------------------------
(* Deterministic generation: one DeterministicGenerator over the Grammar,   *)
(* configured with a max_recursion_depth of 1..MaxDepth; names bracketed,   *)
(* as LegacyAdapter stores them                                             *)

T(c) == Terminal(<<c>>)
Ref(id) == NonTerminal(Bracketed(id))

GenRules ==
    { \* public <s> = <a> <b>;
      Rule(Bracketed("s"), Sequence(<<Ref("a"), Ref("b")>>), TRUE),
      \* public <s> = h [ w ];
      Rule(Bracketed("s"), Sequence(<<T("h"), OptionalNode(T("w"))>>), TRUE),
      \* public <s> = ( h | <s> );
      Rule(Bracketed("s"),
           Group(Alternative(<< <<T("h"), 1>>, <<Ref("s"), 1>> >>)), TRUE),
      \* <a> = h | i;
      Rule(Bracketed("a"), Alternative(<< <<T("h"), 1>>, <<T("i"), 1>> >>), FALSE),
      \* public <a> = /5/ h | /1/ i;
      Rule(Bracketed("a"), Alternative(<< <<T("h"), 5>>, <<T("i"), 1>> >>), TRUE),
      \* <a> = <b> [ <a> ];
      Rule(Bracketed("a"), Sequence(<<Ref("b"), OptionalNode(Ref("a"))>>), FALSE),
      \* <b> = w | t;
      Rule(Bracketed("b"), Alternative(<< <<T("w"), 1>>, <<T("t"), 1>> >>), FALSE),
      \* <b> = [ <s> ];
      Rule(Bracketed("b"), OptionalNode(Ref("s")), FALSE),
      \* <b>: an empty Sequence, then w
      Rule(Bracketed("b"), Sequence(<<Sequence(<<>>), T("w")>>), FALSE),
      \* <b> = <a> | <m>;
      Rule(Bracketed("b"), Alternative(<< <<Ref("a"), 1>>, <<Ref("m"), 1>> >>), FALSE) }

GenArgs == {NoName, Name(Bracketed("s")), Name(BareName("a")), Name(Bracketed("b"))}

InitGen ==
    /\ rules = <<>>
    /\ public_rules = <<>>
    /\ file = NoFile
    /\ max_recursion_depth \in 1..MaxDepth
    /\ tracker = NewTracker
    /\ ptracker = NewTracker
    /\ instances = <<>>
    /\ callers = <<>>
    /\ ret = [op |-> "init", arg |-> NoneVal, exc |-> "none", val |-> NoneVal]

NextGen ==
    \/ \E rule \in GenRules : add_rule(rule)
    \/ \E rule_name \in GenArgs : generate(rule_name)

SpecGen == InitGen /\ [][NextGen]_vars

-----------------------------------------------------------------------------
(* Properties of deterministic generation *)

\* the bracketed spelling of the name a call was given
StartName(arg) == <<LT>> \o Ident(arg.name) \o <<GT>>

\* the stored rule a name denotes
RuleNamed(rs, name) == CHOOSE r \in Range(rs) : Ident(r.name) = Ident(name)

\* the names a rule's expansion leads to, directly or through other rules
Reached(rs, name) == ReachableFrom(Edges(rs), name)

\* everything the rule leads to is defined, and neither the rule nor
\* anything it leads to lies on a cycle
Generable(rs, name) ==
    /\ NamesARule(rs, name)
    /\ \A n \in Reached(rs, name) : NamesARule(rs, n)
    /\ \A n \in {name} \cup Reached(rs, name) : ~OnCycle(Edges(rs), n)

\* two pieces joined by a space, an empty piece leaving no space
JoinTwo(a, b) == IF a = <<>> THEN b ELSE IF b = <<>> THEN a ELSE a \o <<SP>> \o b

\* every string of L1 followed by every string of L2, L2 varying fastest
Cross(L1, L2) ==
    [k \in 1..(Len(L1) * Len(L2)) |->
        JoinTwo(L1[((k - 1) \div Len(L2)) + 1], L2[((k - 1) % Len(L2)) + 1])]

\* the reference recursion: the list of strings of a node
RECURSIVE RefList(_, _), RefCross(_, _), RefConcat(_, _)
RefList(rs, n) ==
    CASE n.kind = "Terminal" -> <<n.value>>
      [] n.kind = "NonTerminal" -> RefList(rs, RuleNamed(rs, n.name).expansion)
      [] n.kind = "Sequence" -> RefCross(rs, n.elements)
      [] n.kind = "Alternative" -> RefConcat(rs, n.choices)
      [] n.kind = "Optional" -> << <<>> >> \o RefList(rs, n.element)
      [] n.kind = "Group" -> RefList(rs, n.element)

RefCross(rs, elements) ==
    IF elements = <<>> THEN << <<>> >>
    ELSE Cross(RefList(rs, Head(elements)), RefCross(rs, Tail(elements)))

RefConcat(rs, choices) ==
    IF choices = <<>> THEN <<>>
    ELSE RefList(rs, Head(choices)[1]) \o RefConcat(rs, Tail(choices))

\* the number of strings of a node: the product over a sequence, the sum
\* over alternatives, one more than the element's for an optional
RECURSIVE Count(_, _), CountProduct(_, _), CountSum(_, _)
Count(rs, n) ==
    CASE n.kind = "Terminal" -> 1
      [] n.kind = "NonTerminal" -> Count(rs, RuleNamed(rs, n.name).expansion)
      [] n.kind = "Sequence" -> CountProduct(rs, n.elements)
      [] n.kind = "Alternative" -> CountSum(rs, n.choices)
      [] n.kind = "Optional" -> 1 + Count(rs, n.element)
      [] n.kind = "Group" -> Count(rs, n.element)

CountProduct(rs, elements) ==
    IF elements = <<>> THEN 1
    ELSE Count(rs, Head(elements)) * CountProduct(rs, Tail(elements))

CountSum(rs, choices) ==
    IF choices = <<>> THEN 0
    ELSE Count(rs, Head(choices)[1]) + CountSum(rs, Tail(choices))

\* the reference lists of the public rules, one after the other
RECURSIVE RefOfEach(_, _)
RefOfEach(rs, pub) ==
    IF pub = <<>> THEN <<>>
    ELSE RefList(rs, pub[1].expansion) \o RefOfEach(rs, Tail(pub))

\* C9: started from a rule that leads to no cycle and to no undefined name,
\* generate yields exactly the list of the reference recursion (Terminal
\* [t]; NonTerminal the referenced rule's list; Sequence the product of its
\* elements' lists, last element fastest, non-empty pieces joined by a
\* space, [""] when empty; Alternative the concatenation of its choices'
\* lists whatever their weights; Optional "" then the element's list; Group
\* the element's list), and as many strings as the product/sum/1+ count;
\* with no rule given it yields the lists of the public rules in turn.
C9_GenerateIsReference ==
    ret.op = "generate" =>
        /\ (ret.arg.given /\ Generable(rules, StartName(ret.arg))) =>
            LET start == RuleNamed(rules, StartName(ret.arg)) IN
            /\ ret.exc = "none"
            /\ ret.val.yielded = RefList(rules, start.expansion)
            /\ Len(ret.val.yielded) = Count(rules, start.expansion)
        /\ (/\ ~ret.arg.given
            /\ \A i \in 1..Len(rules) :
                    rules[i].is_public => Generable(rules, rules[i].name)) =>
            /\ ret.exc = "none"
            /\ ret.val.yielded = RefOfEach(rules, SelectSeq(rules, IsPublic))

\* generate('<s>') on <s> = <a> <b> with two 2-way sub-rules, one of them
\* weighted /5/ and /1/, has yielded the 4-element product
C9_Witness ==
    /\ ret.op = "generate"
    /\ ret.arg = Name(Bracketed("s"))
    /\ ret.exc = "none"
    /\ ret.val.yielded = << <<"h", SP, "w">>, <<"h", SP, "t">>,
                            <<"i", SP, "w">>, <<"i", SP, "t">> >>
    /\ \E i \in 1..Len(rules) :
            /\ rules[i].expansion.kind = "Alternative"
            /\ rules[i].expansion.choices[1][2] = 5

\* no rule of the grammar refers to a name that names no rule
NoUndefinedReferences(rs) == \A i \in 1..Len(rs) : UndefinedNames(rs, i) = {}

\* the rule is on a cycle or leads to a rule that is
ReachesCycle(rs, name) ==
    \E n \in {name} \cup Reached(rs, name) : OnCycle(Edges(rs), n)

\* C10: on a grammar without undefined references, generate started from a
\* rule that can reach a cycle ends with RecursionError naming a rule on a
\* cycle and yields nothing; started from a rule that cannot reach a cycle
\* it does not raise RecursionError; for every max_recursion_depth >= 1.
C10_RecursionGuard ==
    (/\ ret.op = "generate"
     /\ ret.arg.given
     /\ NamesARule(rules, StartName(ret.arg))
     /\ NoUndefinedReferences(rules)
     /\ max_recursion_depth >= 1) =>
        IF ReachesCycle(rules, StartName(ret.arg))
        THEN /\ ret.exc = "RecursionError"
             /\ OnCycle(Edges(rules), ret.val.rule)
             /\ ret.val.yielded = <<>>
        ELSE ret.exc # "RecursionError"

\* generate('<b>') failed on <s>, a rule on a cycle that <b> only leads
\* into, on a generator that an earlier failed call left counts in
C10_Witness ==
    /\ ret.op = "generate"
    /\ ret.arg = Name(Bracketed("b"))
    /\ NoUndefinedReferences(rules)
    /\ ret.exc = "RecursionError"
    /\ ret.val.rule = Bracketed("s")
    /\ ~OnCycle(Edges(rules), Bracketed("b"))
    /\ TrackerGet(tracker, Bracketed("s")) >= 2

-----------------------------------------------------------------------------
(* Probabilistic generation, and the legacy generators: a Grammar with a    *)
(* DeterministicGenerator and a ProbabilisticGenerator over it, and the     *)
(* legacy modules run on a grammar file                                     *)

ProbRules ==
    { \* public <s> = <a> [ w ];
      Rule(Bracketed("s"), Sequence(<<Ref("a"), OptionalNode(T("w"))>>), TRUE),
      \* public <s> = /2/ h | /1/ <s> w;
      Rule(Bracketed("s"),
           Alternative(<< <<T("h"), 2>>,
                          <<Sequence(<<Ref("s"), T("w")>>), 1>> >>), TRUE),
      \* public <s> = h | <m>;
      Rule(Bracketed("s"), Alternative(<< <<T("h"), 1>>, <<Ref("m"), 1>> >>), TRUE),
      \* <a> = /5/ h | /0/ i | /1/ t;
      Rule(Bracketed("a"),
           Alternative(<< <<T("h"), 5>>, <<T("i"), 0>>, <<T("t"), 1>> >>), FALSE),
      \* public <a> = [ <s> ] t;
      Rule(Bracketed("a"), Sequence(<<OptionalNode(Ref("s")), T("t")>>), TRUE),
      \* <a> = ( h <m> );
      Rule(Bracketed("a"), Group(Sequence(<<T("h"), Ref("m")>>)), FALSE) }

ProbArgs == {NoName, Name(Bracketed("s")), Name(BareName("a")), Name(Bracketed("b"))}

\* the grammar files the legacy modules are run on
LegacyFiles ==
    { \* public <s> = <t> [ w ];  <t> = /2/ h | /1/ i;
      \* public <u> = h | <u> w;
      <<Definition(TRUE, Bracketed("s"),
                   LList(<<LList(<<LNonTerminal(Bracketed("t")),
                                   LOptional(LStr(<<"w">>))>>)>>)),
        Definition(FALSE, Bracketed("t"),
                   LList(<<LDisjunction(<<LTuple(LStr(<<"h">>), 2),
                                          LTuple(LStr(<<"i">>), 1)>>)>>)),
        Definition(TRUE, Bracketed("u"),
                   LList(<<LDisjunction(<<LStr(<<"h">>),
                                          LList(<<LNonTerminal(Bracketed("u")),
                                                  LStr(<<"w">>)>>)>>)>>))>>,
      \* public <s> = h | <m>;  public <t> = <s> <m>;
      <<Definition(TRUE, Bracketed("s"),
                   LList(<<LDisjunction(<<LStr(<<"h">>),
                                          LNonTerminal(Bracketed("m"))>>)>>)),
        Definition(TRUE, Bracketed("t"),
                   LList(<<LList(<<LNonTerminal(Bracketed("s")),
                                   LNonTerminal(Bracketed("m"))>>)>>))>> }

InitProb ==
    /\ rules = <<>>
    /\ public_rules = <<>>
    /\ file \in {File(text) : text \in LegacyFiles}
    /\ max_recursion_depth \in 1..MaxDepth
    /\ tracker = NewTracker
    /\ ptracker = NewTracker
    /\ instances = <<>>
    /\ callers = <<>>
    /\ ret = [op |-> "init", arg |-> NoneVal, exc |-> "none", val |-> NoneVal]

NextProb ==
    \/ \E rule \in ProbRules : add_rule(rule)
    \/ \E rule_name \in ProbArgs : generate(rule_name)
    \/ \E rule_name \in ProbArgs : generate_one(rule_name)
    \/ \E k \in 1..MaxDefs : det_processRHS(k)
    \/ \E k \in 1..MaxDefs : prob_processRHS(k)

SpecProb == InitProb /\ [][NextProb]_vars

-----------------------------------------------------------------------------
(* Properties of generation that meets an undefined rule *)

\* the names a rule leads to that name no rule
UndefinedReached(rs, name) == {n \in Reached(rs, name) : ~NamesARule(rs, n)}

\* every derivation of the node visits a NonTerminal that names no rule;
\* for nodes that lead to no cycle
RECURSIVE MustVisit(_, _)
MustVisit(rs, n) ==
    CASE n.kind = "Terminal" -> FALSE
      [] n.kind = "NonTerminal" ->
            IF NamesARule(rs, n.name)
            THEN MustVisit(rs, RuleNamed(rs, n.name).expansion)
            ELSE TRUE
      [] n.kind = "Sequence" ->
            \E i \in 1..Len(n.elements) : MustVisit(rs, n.elements[i])
      [] n.kind = "Alternative" ->
            \A i \in 1..Len(n.choices) :
                n.choices[i][2] > 0 => MustVisit(rs, n.choices[i][1])
      [] n.kind = "Optional" -> FALSE
      [] n.kind = "Group" -> MustVisit(rs, n.element)

\* the same for the right-hand sides of a grammar file
RECURSIVE LNonTerminalsOf(_)
LNonTerminalsOf(rhs) ==
    CASE rhs.kind = "list" ->
            UNION {LNonTerminalsOf(rhs.items[i]) : i \in 1..Len(rhs.items)}
      [] rhs.kind = "Disjunction" ->
            UNION {LNonTerminalsOf(rhs.disjuncts[i]) : i \in 1..Len(rhs.disjuncts)}
      [] rhs.kind = "tuple" -> LNonTerminalsOf(rhs.node)
      [] rhs.kind = "LOptional" -> LNonTerminalsOf(rhs.option)
      [] rhs.kind = "LNonTerminal" -> {rhs.name}
      [] rhs.kind = "str" -> {}

LEdges(defs) ==
    UNION {{<<defs[i].name, nm>> : nm \in LNonTerminalsOf(defs[i].rhs)} :
                i \in 1..Len(defs)}

LDefined(defs, name) == \E i \in 1..Len(defs) : defs[i].name = name

LUndefinedReached(defs, name) ==
    {n \in ReachableFrom(LEdges(defs), name) : ~LDefined(defs, n)}

LReachesCycle(defs, name) ==
    \E n \in {name} \cup ReachableFrom(LEdges(defs), name) : OnCycle(LEdges(defs), n)

RECURSIVE LMustVisit(_, _)
LMustVisit(defs, rhs) ==
    CASE rhs.kind = "str" -> FALSE
      [] rhs.kind = "LNonTerminal" ->
            IF LDefined(defs, rhs.name)
            THEN LMustVisit(defs, (CHOOSE d \in Range(defs) : d.name = rhs.name).rhs)
            ELSE TRUE
      [] rhs.kind = "list" ->
            \E i \in 1..Len(rhs.items) : LMustVisit(defs, rhs.items[i])
      [] rhs.kind = "Disjunction" ->
            \A i \in 1..Len(rhs.disjuncts) : LMustVisit(defs, rhs.disjuncts[i])
      [] rhs.kind = "tuple" -> rhs.weight > 0 => LMustVisit(defs, rhs.node)
      [] rhs.kind = "LOptional" -> FALSE

IsPublicDef(d) == d.public

\* C11: generation that meets a NonTerminal naming no rule fails with an
\* error that names it and gives no string.  DeterministicGenerator.generate
\* raises GenerationError whenever such a name is reachable from a start
\* rule that leads to no cycle; ProbabilisticGenerator raises it whenever
\* the derivation visits such a name, and only then; the legacy processRHS
\* of both modules raise ValueError in the same cases; and a start rule
\* name that names no rule gives GenerationError in both jsgf generators.
C11_UndefinedRuleFails ==
    /\ (ret.op \in {"generate", "generate_one"} /\ ret.arg.given) =>
        IF ~NamesARule(rules, StartName(ret.arg))
        THEN /\ ret.exc = "GenerationError"
             /\ ret.val.rule = ret.arg.name
             /\ ret.op = "generate" => ret.val.yielded = <<>>
             /\ ret.op = "generate_one" => ret.val.string = <<>>
        ELSE LET start == StartName(ret.arg)
                 undefined == UndefinedReached(rules, start)
                 acyclic == ~ReachesCycle(rules, start)
             IN  /\ (ret.op = "generate" /\ acyclic /\ undefined # {}) =>
                        /\ ret.exc = "GenerationError"
                        /\ ret.val.rule \in undefined
                        /\ ret.val.yielded = <<>>
                 /\ (ret.op = "generate_one" /\ ret.exc = "GenerationError") =>
                        /\ ret.val.rule \in undefined
                        /\ ret.val.string = <<>>
                 /\ (/\ ret.op = "generate_one"
                     /\ acyclic
                     /\ MustVisit(rules, RuleNamed(rules, start).expansion)) =>
                        ret.exc = "GenerationError"
    /\ ret.op \in {"det_processRHS", "prob_processRHS"} =>
        LET defs == ret.arg.file.text
            d == SelectSeq(defs, IsPublicDef)[ret.arg.k]
            undefined == LUndefinedReached(defs, d.name)
            acyclic == ~LReachesCycle(defs, d.name)
        IN  DistinctNames(defs) =>
            /\ (ret.op = "det_processRHS" /\ acyclic /\ undefined # {}) =>
                    /\ ret.exc = "ValueError"
                    /\ ret.val.rule \in undefined
                    /\ ret.val.strings = <<>>
            /\ (ret.op = "prob_processRHS" /\ ret.exc = "ValueError") =>
                    /\ ret.val.rule \in undefined
                    /\ ret.val.string = <<>>
            /\ (ret.op = "prob_processRHS" /\ acyclic /\ LMustVisit(defs, d.rhs)) =>
                    ret.exc = "ValueError"

\* ProbabilisticGenerator.generate_one('<s>') on <s> = h | <m> drew the
\* undefined <m> and raised GenerationError naming it
C11_Witness ==
    /\ ret.op = "generate_one"
    /\ ret.arg = Name(Bracketed("s"))
    /\ NamesARule(rules, Bracketed("s"))
    /\ ret.exc = "GenerationError"
    /\ ret.val.rule = Bracketed("m")

-----------------------------------------------------------------------------
(* Properties of probabilistic generation *)

\* what a fresh DeterministicGenerator over the grammar yields for the call
FreshDeterministic(arg) == Generate(Self, max_recursion_depth, arg, NewTracker)

\* C12: a string that ProbabilisticGenerator returns, whatever the weights
\* and the draws, is one that a DeterministicGenerator yields for the same
\* start rule when that rule leads to no cycle and to no undefined name;
\* with no start rule it is one of those yielded for the public rules.  The
\* legacy ProbabilisticGenerator.processRHS returns one of the strings of
\* the legacy DeterministicGenerator.processRHS likewise.
C12_ProbabilisticIsDerivable ==
    /\ (ret.op = "prob_processRHS" /\ ret.exc = "none") =>
        LET defs == ret.arg.file.text
            grammar == getGrammarObject(defs)
            d == grammar.publicRules[ret.arg.k]
            all == processRHS(grammar, d.rhs, MaxStack)
        IN  (/\ DistinctNames(defs)
             /\ ~LReachesCycle(defs, d.lhs.name)
             /\ LUndefinedReached(defs, d.lhs.name) = {}) =>
                /\ all.exc = "none"
                /\ \E i \in 1..Len(all.val) : all.val[i] = ret.val.string
    /\ (ret.op = "generate_one" /\ ret.exc = "none") =>
        /\ (ret.arg.given /\ Generable(rules, StartName(ret.arg))) =>
            \E i \in 1..Len(FreshDeterministic(ret.arg).val) :
                FreshDeterministic(ret.arg).val[i] = ret.val.string
        /\ (/\ ~ret.arg.given
            /\ \A i \in 1..Len(rules) :
                    rules[i].is_public => Generable(rules, rules[i].name)) =>
            \E i \in 1..Len(FreshDeterministic(NoName).val) :
                FreshDeterministic(NoName).val[i] = ret.val.string

\* generate_one('<s>') on <s> = <a> [ w ], <a> = /5/ h | /0/ i | /1/ t has
\* returned "t w"
C12_Witness ==
    /\ ret.op = "generate_one"
    /\ ret.arg = Name(Bracketed("s"))
    /\ ret.exc = "none"
    /\ Generable(rules, Bracketed("s"))
    /\ ret.val.string = <<"t", SP, "w">>

-----------------------------------------------------------------------------
(* Weighted selection on lists of up to MaxChoices choices with weights     *)
(* 0..MaxWeight and every draw                                              *)

\* lists of (element, weight) tuples
ListsOfTuples ==
    UNION {[1..n -> {<<T("h"), w>> : w \in 0..MaxWeight}] : n \in 1..MaxChoices}

\* lists of choices as Alternative.__init__ takes them
ListsOfChoices ==
    UNION {[1..n -> {Unweighted(T("h"))} \cup
                    {Weighted(T("h"), w) : w \in 0..MaxWeight}] :
                n \in 1..MaxChoices}

RECURSIVE SumTo(_, _)
\* the cumulative weight of the first i choices
SumTo(w, i) == IF i = 0 THEN 0 ELSE SumTo(w, i - 1) + w[i]

\* the weights a list of choices counts with
WeightsOfTuples(l) == [i \in 1..Len(l) |-> l[i][2]]
WeightsOfChoices(l) == [i \in 1..Len(l) |-> IF l[i].tuple THEN l[i].weight ELSE 1]

\* a list of tuples, or the choices of an Alternative, has been built;
\* the selections that follow draw from it
InitChoice ==
    /\ rules = <<>>
    /\ public_rules = <<>>
    /\ file = NoFile
    /\ max_recursion_depth = DefaultMaxRecursionDepth
    /\ tracker = NewTracker
    /\ ptracker = NewTracker
    /\ instances = <<>>
    /\ callers = <<>>
    /\ ret \in {[op |-> "listOfTuples", arg |-> [choices |-> l, x |-> NoneVal],
                  exc |-> "none", val |-> NoneVal] : l \in ListsOfTuples}
          \cup {[op |-> "Alternative", arg |-> [choices |-> l, x |-> NoneVal],
                  exc |-> "none", val |-> AlternativeInit(l)] :
                    l \in ListsOfChoices}

NextChoice ==
    \/ /\ ret.op \in {"listOfTuples", "weightedChoice"}
       /\ \E x \in Draws(SumTo(WeightsOfTuples(ret.arg.choices),
                               Len(ret.arg.choices))) :
            weightedChoice(ret.arg.choices, x)
    \/ /\ ret.op \in {"Alternative", "select_alternative"}
       /\ \E x \in Draws(SumTo(WeightsOfChoices(ret.arg.choices),
                               Len(ret.arg.choices))) :
            select_alternative(ret.arg.choices, x)

SpecChoice == InitChoice /\ [][NextChoice]_vars

\* the weights of the selection the last call made
SelectionWeights ==
    IF ret.op = "weightedChoice" THEN WeightsOfTuples(ret.arg.choices)
    ELSE WeightsOfChoices(ret.arg.choices)

IsSelection == ret.op \in {"weightedChoice", "select_alternative"}

\* C13: with a total weight above 0 and a draw x in [0, total), the choice
\* selected is inside the list and is the one whose range
\* [cum(i-1), cum(i)) holds x, the first whose cumulative weight exceeds x;
\* so a choice of weight 0 is never selected and each choice is selected
\* for as many draws as its weight; a choice given without weight counts 1.
C13_WeightedSelection ==
    LET w == SelectionWeights
        i == ret.val + 1
    IN  (IsSelection /\ SumTo(w, Len(w)) > 0) =>
            /\ ret.exc = "none"
            /\ i \in 1..Len(w)
            /\ SumTo(w, i - 1) <= ret.arg.x
            /\ ret.arg.x < SumTo(w, i)
            /\ w[i] > 0
            /\ \A j \in 1..(i - 1) : SumTo(w, j) <= ret.arg.x

\* of an unweighted choice between two of weight 2, the draw 2 selects the
\* unweighted one, which counts 1
C13_Witness ==
    /\ ret.op = "select_alternative"
    /\ ret.arg.choices = <<Weighted(T("h"), 2), Unweighted(T("h")), Weighted(T("h"), 2)>>
    /\ ret.arg.x = 2
    /\ ret.val = 1

\* the draw is the cumulative weight of some choice before the last
OnBoundary ==
    \E j \in 1..(Len(SelectionWeights) - 1) : SumTo(SelectionWeights, j) = ret.arg.x

\* C14 as the specification words it: a draw on a cumulative-weight
\* boundary selects the first choice whose cumulative weight equals or
\* exceeds the draw, the choice that ends at the boundary.
C14_BoundaryEndsChoice ==
    LET w == SelectionWeights
        i == ret.val + 1
    IN  (IsSelection /\ SumTo(w, Len(w)) > 0 /\ OnBoundary) =>
            /\ SumTo(w, i) >= ret.arg.x
            /\ \A j \in 1..(i - 1) : SumTo(w, j) < ret.arg.x

\* C14 as the code has it: a draw on a cumulative-weight boundary selects
\* the first choice whose cumulative weight exceeds the draw, the choice
\* that starts at the boundary; the draw is below the total, every choice
\* of positive weight has draws that select it and no draw selects two.
C14_BoundaryStartsChoice ==
    LET w == SelectionWeights
        i == ret.val + 1
    IN  (IsSelection /\ SumTo(w, Len(w)) > 0 /\ OnBoundary) =>
            /\ ret.arg.x < SumTo(w, Len(w))
            /\ SumTo(w, i) > ret.arg.x
            /\ SumTo(w, i - 1) = ret.arg.x
            /\ \A j \in 1..(i - 1) : SumTo(w, j) <= ret.arg.x

\* weights 1 and 2, the draw 1: the second choice is selected
C14_Witness ==
    /\ ret.op = "weightedChoice"
    /\ WeightsOfTuples(ret.arg.choices) = <<1, 2>>
    /\ ret.arg.x = 1
    /\ ret.val = 1

-----------------------------------------------------------------------------
(* Properties of the recursion counters across calls *)

AllZero(tr) == \A k \in DOMAIN tr : tr[k] = 0

\* C15: every top-level generation call starts its derivation with all
\* recursion counters of the instance at zero, whatever ran on the
\* instance before: generate with a rule name, generate for each public
\* rule, and every pull of the probabilistic generate.
C15_CountersStartAtZero ==
    ret.op \in {"generate", "generate_one"} =>
        \A i \in 1..Len(ret.val.started) : AllZero(ret.val.started[i])

\* C16: a call on an instance on which earlier calls failed ends as the
\* same call on a fresh instance over the same grammar and configuration:
\* it yields the same strings or fails with an error of the same kind.
C16_FailedCallsLeaveNoTrace ==
    /\ ret.op = "generate" =>
        /\ ret.exc = FreshDeterministic(ret.arg).exc
        /\ ret.val.yielded = FreshDeterministic(ret.arg).val
    /\ ret.op = "generate_one" =>
        \E r \in PGenerate(Self, max_recursion_depth, ret.arg, NewTracker) :
            r.exc = ret.exc /\ r.val = ret.val.string

\* generate with a rule name has yielded strings on a generator that an
\* earlier failed call left a count in
C16_Witness ==
    /\ ret.op = "generate"
    /\ ret.arg.given
    /\ ret.exc = "none"
    /\ ret.val.yielded # <<>>
    /\ \E k \in DOMAIN tracker : tracker[k] >= 1

-----------------------------------------------------------------------------
(* Concurrent callers: two callers pull from one ProbabilisticGenerator, or *)
(* each from its own, over one Grammar                                      *)

Callers == {1, 2}

\* public <s> = h | <s> [ <a> ];  <a> = w;
CallersGrammar ==
    << Rule(Bracketed("s"),
            Alternative(<< <<T("h"), 1>>,
                           <<Sequence(<<Ref("s"), OptionalNode(Ref("a"))>>), 1>> >>),
            TRUE),
       Rule(Bracketed("a"), T("w"), FALSE) >>

CallersArgs == {Bracketed("s"), Bracketed("b")}

NewCaller(instance) ==
    [instance |-> instance, pc |-> "idle", todo |-> <<>>, last |-> NoOutcome]

InitCallers ==
    /\ rules = CallersGrammar
    /\ public_rules = SelectSeq(CallersGrammar, IsPublic)
    /\ file = NoFile
    /\ max_recursion_depth \in 1..MaxDepth
    /\ tracker = NewTracker
    /\ ptracker = NewTracker
    /\ instances = <<NewTracker, NewTracker>>
    /\ callers \in {<<NewCaller(1), NewCaller(1)>>, <<NewCaller(1), NewCaller(2)>>}
    /\ ret = [op |-> "init", arg |-> NoneVal, exc |-> "none", val |-> NoneVal]

NextCallers ==
    \/ \E t \in Callers, rule_name \in CallersArgs : pull(t, rule_name)
    \/ \E t \in Callers : step(t)
    \/ \E t \in Callers : unwind(t)

SpecCallers == InitCallers /\ [][NextCallers]_vars

\* the callers that pull from the generator of caller t
SharingWith(t) ==
    {u \in DOMAIN callers : callers[u].instance = callers[t].instance}

CallersRuleNames == {rules[i].name : i \in 1..Len(rules)}

\* the entry that raised RecursionError was counted and is never exited
Residue(c, name) ==
    IF c.pc \in {"raising", "failed"} /\ c.last.exc = "RecursionError"
       /\ c.last.rule = name
    THEN 1 ELSE 0

\* the counters of the caller's generator are the caller's own nesting
OwnCounters(t) ==
    LET c == callers[t]
        tr == instances[c.instance]
    IN  \A name \in CallersRuleNames \cup DOMAIN tr :
            /\ TrackerGet(tr, name) = Pending(c, name) + Residue(c, name)
            /\ TrackerGet(tr, name) >= 0
            /\ Pending(c, name) <= max_recursion_depth

\* a RecursionError of the caller's last call that its own nesting did
\* not call for
SpuriousRecursionError(t) ==
    /\ callers[t].last.exc = "RecursionError"
    /\ callers[t].last.nesting <= max_recursion_depth

\* the caller is inside more entries of one rule than the guard allows
NestedTooDeep(t) ==
    /\ callers[t].pc = "running"
    /\ \E name \in CallersRuleNames :
            Pending(callers[t], name) > max_recursion_depth

\* C17: a caller that has a generator of its own, on a Grammar it shares
\* with the other callers, sees no interference: each counter of its
\* generator is the number of entries of that rule its call is inside of
\* (and one for the entry that raised), never negative, never more than
\* max_recursion_depth entries deep, and a RecursionError is raised only
\* when its own nesting exceeded max_recursion_depth.
C17_OwnInstanceNoInterference ==
    \A t \in DOMAIN callers :
        SharingWith(t) = {t} =>
            /\ OwnCounters(t)
            /\ ~NestedTooDeep(t)
            /\ ~SpuriousRecursionError(t)

\* two callers on one generator: one is nested deeper than the guard
\* allows without an error, the last call of the other raised
\* RecursionError at a nesting within the limit, and a counter is below
\* zero
C17_Witness ==
    \E t \in DOMAIN callers : \E u \in SharingWith(t) \ {t} :
        /\ NestedTooDeep(t)
        /\ SpuriousRecursionError(u)
        /\ \E name \in DOMAIN instances[callers[t].instance] :
                instances[callers[t].instance][name] < 0

-----------------------------------------------------------------------------
(* The Grammar under generation calls and under changes to the containers *)
(* its properties return                                                  *)

FrameRules == {r \in ProbRules : r.name = Bracketed("s")} \cup
              {Rule(Bracketed("a"), T("t"), TRUE)}

FrameLimits == {0, 1, 2}

InitFrame ==
    /\ rules = <<>>
    /\ public_rules = <<>>
    /\ file = NoFile
    /\ max_recursion_depth \in 1..MaxDepth
    /\ tracker = NewTracker
    /\ ptracker = NewTracker
    /\ instances = <<>>
    /\ callers = <<>>
    /\ ret = [op |-> "init", arg |-> NoneVal, exc |-> "none", val |-> NoneVal]

NextFrame ==
    \/ \E rule \in FrameRules : add_rule(rule)
    \/ \E rule_name \in ProbArgs : generate(rule_name)
    \/ \E rule_name \in ProbArgs : generate_one(rule_name)
    \/ \E rule_name \in ProbArgs, limit \in FrameLimits :
            generate_list(rule_name, limit)
    \/ rules_property
    \/ public_rules_property
    \/ \E rule \in FrameRules : container_add(rule)
    \/ \E i \in 1..(MaxRules + 1) : container_remove(i)

SpecFrame == InitFrame /\ [][NextFrame]_vars

GenerationCalls == {"generate", "generate_one", "generate_list"}

\* C18: a step of generate, generate_list or generate_one, whether it
\* returns or raises, leaves rules and public_rules (and with them every
\* rule's expansion) as they were; and so does adding a rule to, or
\* removing one from, a container that the rules or public_rules property
\* returned.
C18_GrammarUnchanged ==
    [][(\/ ret'.op \in GenerationCalls
        \/ ret.op \in {"rules", "public_rules"} /\ ret'.op = ret.op)
       => /\ rules' = rules
          /\ public_rules' = public_rules]_vars

\* after a generation call that failed (a counter is left above zero) on
\* a grammar with public rules, the table that the rules property
\* returned has gained a rule that the grammar's own table does not have
C18_Witness ==
    /\ rules # <<>>
    /\ public_rules # <<>>
    /\ ret.op = "rules"
    /\ Len(ret.val.items) > Len(rules)
    /\ \E k \in DOMAIN tracker : tracker[k] > 0

-----------------------------------------------------------------------------
(* The parser over texts whose definitions are laid out over lines *)

\* public <s> = h ;      <a> = w | t ;
ParseDefs ==
    << Definition(TRUE, Bracketed("s"), LList(<<LStr(<<"h">>)>>)),
       Definition(FALSE, Bracketed("a"),
                  LList(<<LDisjunction(<<LStr(<<"w">>), LStr(<<"t">>)>>)>>)) >>

ParseLines ==
    LET s == ParseDefs[1]
        a == ParseDefs[2]
    IN  { Chunks(s), Chunks(a),
          Chunks(s) \o Chunks(a),
          <<HeadChunk(s.public, s.name)>>, <<BodyChunk(s.rhs), SemiChunk>>,
          <<HeadChunk(a.public, a.name), BodyChunk(a.rhs)>>, <<SemiChunk>>,
          <<HeadChunk(a.public, a.name), UnparsedChunk, SemiChunk>>,
          <<HeadChunk(a.public, a.name), BadWeightChunk, SemiChunk>>,
          Chunks(s) \o <<SlashCommentChunk>>,
          <<StarChunk>> \o Chunks(a) }

InitParse ==
    /\ rules = <<>>
    /\ public_rules = <<>>
    /\ file = File(<<>>)
    /\ max_recursion_depth = DefaultMaxRecursionDepth
    /\ tracker = NewTracker
    /\ ptracker = NewTracker
    /\ instances = <<>>
    /\ callers = <<>>
    /\ ret = [op |-> "init", arg |-> NoneVal, exc |-> "none", val |-> NoneVal]

NextParse ==
    \/ \E line \in ParseLines : write_line(line)
    \/ parse_file
    \/ from_string_of_lines

SpecParse == InitParse /\ [][NextParse]_vars

\* the text of the lines, one after the other
RECURSIVE Flatten(_)
Flatten(lines) ==
    IF lines = <<>> THEN <<>> ELSE Head(lines) \o Flatten(Tail(lines))

\* the text is rule definitions and nothing else
IsDefinitions(text) ==
    /\ text # <<>>
    /\ Len(text) % 3 = 0
    /\ \A i \in 1..Len(text) :
            text[i].chunk = CASE i % 3 = 1 -> "head"
                              [] i % 3 = 2 -> "body"
                              [] OTHER -> "semi"

\* the rule definitions of such a text, in source order
SourceDefinitions(text) ==
    [k \in 1..(Len(text) \div 3) |->
        Definition(text[3 * k - 2].public, text[3 * k - 2].name,
                   text[3 * k - 1].rhs)]

\* C19 (as the specification states it): for a text of well-formed rule
\* definitions, however they are laid out over the lines, the parser
\* returns the rules that the same definitions give when each is on a
\* line of its own: one rule for each definition, in source order, public
\* exactly when the definition starts with public.
C19_OneRulePerDefinition ==
    (ret.op = "getGrammarObject" /\ IsDefinitions(Flatten(ret.arg.text)))
    => /\ ret.exc = "none"
       /\ ret.val = getGrammarObject(SourceDefinitions(Flatten(ret.arg.text)))

\* the heads of the text that no body and ; follow
MalformedAt(text) ==
    {i \in 1..Len(text) :
        /\ text[i].chunk = "head"
        /\ ~(/\ i + 2 <= Len(text)
              /\ text[i + 1].chunk = "body"
              /\ text[i + 2].chunk = "semi")}

\* the number of the line that holds the i-th chunk of the text
LineOf(lines, i) ==
    CHOOSE n \in 1..Len(lines) :
        /\ Len(Flatten(SubSeq(lines, 1, n - 1))) < i
        /\ i <= Len(Flatten(SubSeq(lines, 1, n)))

NoComments(lines) ==
    \A n \in 1..Len(lines) : nocomment(lines[n]) = lines[n]

\* C20 (as the specification states it): loading a text that holds a
\* malformed rule definition (no ; at its end, an unbalanced bracket, a
\* weight that cannot be parsed) raises a ParseError whose line is the
\* line where the first malformed definition began, and returns no
\* Grammar.
C20_MalformedRaisesParseError ==
    (/\ ret.op = "from_string of lines"
     /\ NoComments(ret.arg.text)
     /\ MalformedAt(Flatten(ret.arg.text)) # {})
    => /\ ret.exc = "ParseError"
       /\ ret.val.grammar = NoneVal
       /\ \E i \in MalformedAt(Flatten(ret.arg.text)) :
            /\ \A k \in MalformedAt(Flatten(ret.arg.text)) : i <= k
            /\ ret.val.line = LineOf(ret.arg.text, i)

-----------------------------------------------------------------------------
(* The parser over definitions whose expansion is given token by token *)

Word(c) == WordToken(<<c>>)

\* /5/ a | b     a | /5/ b     /5/ a | /1/ b     a | b     /2/ a b | /1/ c
\* a b | c | d     [ a ] b     ( a | b ) c     a | [ b
AltTexts ==
    { <<WeightToken(5), Word("a"), Mark("|"), Word("b")>>,
      <<Word("a"), Mark("|"), WeightToken(5), Word("b")>>,
      <<WeightToken(5), Word("a"), Mark("|"), WeightToken(1), Word("b")>>,
      <<Word("a"), Mark("|"), Word("b")>>,
      <<WeightToken(2), Word("a"), Word("b"), Mark("|"), WeightToken(1), Word("c")>>,
      <<Word("a"), Word("b"), Mark("|"), Word("c"), Mark("|"), Word("d")>>,
      <<Mark("["), Word("a"), Mark("]"), Word("b")>>,
      <<Mark("("), Word("a"), Mark("|"), Word("b"), Mark(")"), Word("c")>>,
      <<Word("a"), Mark("|"), Mark("["), Word("b")>> }

\* public <s> = text ;
AltLines ==
    {<<HeadChunk(TRUE, Bracketed("s")), TextChunk(text), SemiChunk>> :
        text \in AltTexts}

NextAlt ==
    \/ \E line \in AltLines : write_line(line)
    \/ parse_file
    \/ from_string_of_lines
    \/ from_string_twice

SpecAlt == InitParse /\ [][NextAlt]_vars

\* the branches of an alternation, the text between its | marks
RECURSIVE Branches(_)
Branches(text) ==
    IF \E i \in 1..Len(text) : text[i].t = "|"
    THEN LET bar == CHOOSE i \in 1..Len(text) :
                        /\ text[i].t = "|"
                        /\ \A k \in 1..(i - 1) : text[k].t # "|"
         IN  <<SubSeq(text, 1, bar - 1)>> \o Branches(SubSeq(text, bar + 1, Len(text)))
    ELSE <<text>>

\* a branch is words, after a weight or after none
IsBranch(branch) ==
    LET words == IF IsMark(branch, 1, "weight") THEN Tail(branch) ELSE branch
    IN  /\ words # <<>>
        /\ \A i \in 1..Len(words) : words[i].t = "word"

IsAlternation(text) ==
    /\ Len(Branches(text)) > 1
    /\ \A i \in 1..Len(Branches(text)) : IsBranch(Branches(text)[i])

IsMixed(text) ==
    /\ \E i \in 1..Len(Branches(text)) : IsMark(Branches(text)[i], 1, "weight")
    /\ \E i \in 1..Len(Branches(text)) : ~IsMark(Branches(text)[i], 1, "weight")

\* the choice a branch stands for: its words in sequence, with the weight
\* written before them or with 1
ChoiceOf(branch) ==
    LET words == IF IsMark(branch, 1, "weight") THEN Tail(branch) ELSE branch
        node == IF Len(words) = 1 THEN Terminal(words[1].value)
                ELSE Sequence([i \in 1..Len(words) |-> Terminal(words[i].value)])
    IN  <<node, IF IsMark(branch, 1, "weight") THEN branch[1].weight ELSE 1>>

AlternativeOf(text) ==
    Alternative([i \in 1..Len(Branches(text)) |-> ChoiceOf(Branches(text)[i])])

\* C21 (as the specification states it): a definition whose expansion is
\* an alternation of weighted and unweighted branches, in any order, is
\* accepted, and its rule converts to the Alternative of the branches in
\* source order, each with its written weight or with 1.
C21_MixedAlternation ==
    (/\ ret.op = "getGrammarObject"
     /\ \A n \in 1..Len(ret.arg.text) : IsAlternation(ret.arg.text[n][2].tokens))
    => /\ ret.exc = "none"
       /\ Len(ret.val.rules) = Len(ret.arg.text)
       /\ \A n \in 1..Len(ret.arg.text) :
            ConvertExpansion(ret.val.rules[n].rhs) =
                AlternativeOf(ret.arg.text[n][2].tokens)

\* the names of the rules, in order
NamesOf(rs) == [i \in 1..Len(rs) |-> rs[i].name]

\* C22 (as the specification states it): two loads of one well-formed
\* text give grammars with the same rule names in the same order and the
\* same public rules, and each expansion of the one equals (==) the
\* expansion of the other, node equality being equality of variant and
\* components for every variant.
C22_ParsesAreEqual ==
    (ret.op = "from_string twice" /\ ret.exc = "none")
    => LET first == ret.val.first
           second == ret.val.second
       IN  /\ NamesOf(first.rules) = NamesOf(second.rules)
           /\ NamesOf(first.public_rules) = NamesOf(second.public_rules)
           /\ \A i \in 1..Len(first.rules) :
                /\ first.rules[i].expansion = second.rules[i].expansion
                /\ NodeEq(first.rules[i].expansion, second.rules[i].expansion,
                          FALSE)

-----------------------------------------------------------------------------
(* The parser over texts with comments *)

\* public <s> = h; // c       // <a> = w | t;
\* public <s> = h; /* c */    /* <a> = w | t; */
\* /*                         <a> = w | t;                 */
CommentLines ==
    LET s == ParseDefs[1]
        a == ParseDefs[2]
    IN  { Chunks(s) \o <<SlashCommentChunk>>,
          <<SlashCommentChunk>> \o Chunks(a),
          Chunks(s) \o <<OpenChunk, CloseChunk>>,
          <<OpenChunk>> \o Chunks(a) \o <<CloseChunk>>,
          <<OpenChunk>>, Chunks(a), <<CloseChunk>> }

NextComments ==
    \/ \E line \in CommentLines : write_line(line)
    \/ parse_file
    \/ from_string_of_lines

SpecComments == InitParse /\ [][NextComments]_vars

\* the line from its i-th chunk on without its comments, and whether a
\* block comment is open at its end: // outside a block comment ends the
\* line, /* opens a block comment and the next */ closes it
RECURSIVE OutsideComments(_, _, _)
OutsideComments(line, i, inBlock) ==
    IF i > Len(line) THEN [kept |-> <<>>, inBlock |-> inBlock]
    ELSE IF inBlock
    THEN OutsideComments(line, i + 1, line[i].chunk # "*/")
    ELSE IF line[i].chunk = "//" THEN [kept |-> <<>>, inBlock |-> FALSE]
    ELSE IF line[i].chunk = "/*" THEN OutsideComments(line, i + 1, TRUE)
    ELSE LET rest == OutsideComments(line, i + 1, FALSE)
         IN  [kept |-> <<line[i]>> \o rest.kept, inBlock |-> rest.inBlock]

\* the lines without their comments, line for line
RECURSIVE WithoutComments(_, _)
WithoutComments(lines, inBlock) ==
    IF lines = <<>> THEN <<>>
    ELSE LET first == OutsideComments(Head(lines), 1, inBlock)
         IN  <<first.kept>> \o WithoutComments(Tail(lines), first.inBlock)

\* whether a block comment is open at the end of the lines
RECURSIVE OpenAfter(_, _)
OpenAfter(lines, inBlock) ==
    IF lines = <<>> THEN inBlock
    ELSE OpenAfter(Tail(lines), OutsideComments(Head(lines), 1, inBlock).inBlock)

\* every block comment of the text is closed, and no */ stands outside one
CommentsClosed(lines) ==
    /\ ~OpenAfter(lines, FALSE)
    /\ \A k \in 1..Len(Flatten(WithoutComments(lines, FALSE))) :
            Flatten(WithoutComments(lines, FALSE))[k].chunk # "*/"

\* C23 (as the specification states it): the parser returns for a text
\* what it returns for the same lines without their comments, a comment
\* being the text from // to the end of the line or from /* to the next
\* */ on that line or a later one: rule text outside a comment is parsed,
\* text inside a comment gives no rule, and every line stays a line.
C23_OnlyCommentsRemoved ==
    (ret.op = "getGrammarObject" /\ CommentsClosed(ret.arg.text))
    => /\ ret.exc = "none"
       /\ Len(WithoutComments(ret.arg.text, FALSE)) = Len(ret.arg.text)
       /\ ret.val = getGrammarObjectOfLines(
                        WithoutComments(ret.arg.text, FALSE)).val

-----------------------------------------------------------------------------
(* One caller's pulls from a ProbabilisticGenerator, a step at a time *)

\* public <s> = <a> | h;  <a> = <s> <b>;      (no rule <b>)
UndefinedInside ==
    << Rule(Bracketed("s"), Alternative(<< <<Ref("a"), 1>>, <<T("h"), 1>> >>), TRUE),
       Rule(Bracketed("a"), Sequence(<<Ref("s"), Ref("b")>>), FALSE) >>

PullGrammars == {CallersGrammar, UndefinedInside}

InitPull ==
    /\ rules \in PullGrammars
    /\ public_rules = SelectSeq(rules, IsPublic)
    /\ file = NoFile
    /\ max_recursion_depth \in 1..MaxDepth
    /\ tracker = NewTracker
    /\ ptracker = NewTracker
    /\ instances = <<NewTracker>>
    /\ callers = <<NewCaller(1)>>
    /\ ret = [op |-> "init", arg |-> NoneVal, exc |-> "none", val |-> NoneVal]

NextPull ==
    \/ \E rule_name \in CallersArgs : pull(1, rule_name)
    \/ step(1)
    \/ unwind(1)

\* The interpreter runs a call that has begun until it returns or raises:
\* a step that can be taken is taken.
SpecPull ==
    InitPull /\ [][NextPull]_vars /\ WF_vars(step(1)) /\ WF_vars(unwind(1))

\* the next step of the call is the entry of a rule it is inside of
\* max_recursion_depth times already
AtLimit(c) ==
    /\ c.pc = "running"
    /\ c.todo # <<>>
    /\ Head(c.todo).item = "node"
    /\ Head(c.todo).node.kind = "NonTerminal"
    /\ Pending(c, Head(c.todo).node.name) = max_recursion_depth

-----------------------------------------------------------------------------
(* Both generators over sequences with empty pieces *)

SpacingRules ==
    { \* public <s> = [ h ] [ w ];
      Rule(Bracketed("s"),
           Sequence(<<OptionalNode(T("h")), OptionalNode(T("w"))>>), TRUE),
      \* public <s> = <a> ( [ h ] <a> ) w;
      Rule(Bracketed("s"),
           Sequence(<<Ref("a"),
                      Group(Sequence(<<OptionalNode(T("h")), Ref("a")>>)),
                      T("w")>>), TRUE),
      \* <a> = Sequence([])
      Rule(Bracketed("a"), Sequence(<<>>), FALSE),
      \* <a> = [ i ] | ( [ t ] Sequence([]) Terminal("") );
      Rule(Bracketed("a"),
           Alternative(<< <<OptionalNode(T("i")), 1>>,
                          <<Sequence(<<OptionalNode(T("t")), Sequence(<<>>),
                                       Terminal(<<>>)>>), 1>> >>), FALSE) }

SpacingArgs == {NoName, Name(Bracketed("s")), Name(Bracketed("a"))}

NextSpacing ==
    \/ \E rule \in SpacingRules : add_rule(rule)
    \/ \E rule_name \in SpacingArgs : generate(rule_name)
    \/ \E rule_name \in SpacingArgs : generate_one(rule_name)

SpecSpacing == InitGen /\ [][NextSpacing]_vars

\* no space at either end, and no two spaces side by side
WellSpaced(str) ==
    /\ str # <<>> => (str[1] # SP /\ str[Len(str)] # SP)
    /\ \A i \in 1..(Len(str) - 1) : ~(str[i] = SP /\ str[i + 1] = SP)

\* the strings the call yielded
YieldedBy(r) ==
    IF r.op = "generate" THEN Range(r.val.yielded)
    ELSE IF r.op = "generate_one" /\ r.exc = "none" THEN {r.val.string}
    ELSE {}

\* C25: a string that DeterministicGenerator.generate or a pull of
\* ProbabilisticGenerator.generate yields, the terminals holding no
\* whitespace, has no space at its start or its end and no two spaces
\* side by side, whatever the nesting of sequences, optionals and empty
\* sequences: an empty piece brings no separator, and pieces that are all
\* empty give the empty string.
C25_NoStraySpaces ==
    \A str \in YieldedBy(ret) : WellSpaced(str)

\* the sequence  <a> ( [ h ] <a> ) w  has yielded both the one word that
\* is left when every other piece is empty and a string of three words
C25_Witness ==
    /\ ret.op = "generate"
    /\ <<"w">> \in YieldedBy(ret)
    /\ \E str \in YieldedBy(ret) :
            Len(str) = 5 /\ str[2] = SP /\ str[4] = SP

-----------------------------------------------------------------------------
(* Properties of generate_list *)

Least(a, b) == IF a <= b THEN a ELSE b

\* C26 (as the specification states it): generate_list(rule_name, limit)
\* on a generator without max_results returns the first min(limit, n)
\* strings of the n that generate(rule_name) yields, for every limit from
\* 0 on.
C26_ListIsPrefix ==
    (ret.op = "generate_list" /\ ret.exc = "none")
    => LET all == Generate(Self, max_recursion_depth, ret.arg.rule_name,
                           NewTracker).val
           limit == ret.arg.limit
       IN  ret.val = SubSeq(all, 1, Least(limit, Len(all)))

-----------------------------------------------------------------------------
(* The deterministic command *)

CommandDefs ==
    { \* public <s> = h | w | t;
      Definition(TRUE, Bracketed("s"),
                 LList(<<LDisjunction(<<LStr(<<"h">>), LStr(<<"w">>),
                                        LStr(<<"t">>)>>)>>)),
      \* public <t> = <s> [ w ];
      Definition(TRUE, Bracketed("t"),
                 LList(<<LNonTerminal(Bracketed("s")),
                         LOptional(LStr(<<"w">>))>>)),
      \* <u> = h | <u> w;
      Definition(FALSE, Bracketed("u"),
                 LList(<<LDisjunction(<<LStr(<<"h">>),
                                        LList(<<LNonTerminal(Bracketed("u")),
                                                LStr(<<"w">>)>>)>>)>>)) }

CommandRules == {NoName, Name(Bracketed("s")), Name(Bracketed("u"))}

CommandLimits == {NoMax} \cup {MaxOf(m) : m \in 1..MaxResults}

NextCommand ==
    \/ \E d \in CommandDefs : write_definition(d)
    \/ \E rule \in CommandRules, max_results \in CommandLimits,
          max_recursion \in 1..MaxDepth :
            deterministic_command(rule, max_results, max_recursion)

SpecCommand == Init /\ [][NextCommand]_vars

\* C27 (as the specification states it): the deterministic command run
\* with --max-results m writes at most m strings.
C27_AtMostMaxResults ==
    (ret.op = "deterministic_command" /\ ret.arg.max_results.given)
    => Len(ret.val.written) <= ret.arg.max_results.m

-----------------------------------------------------------------------------
(* The sequence that one call of ProbabilisticGenerator.generate returns *)

NextSequence ==
    \/ \E rule \in ProbRules : add_rule(rule)
    \/ \E rule_name \in ProbArgs : generate_sequence(rule_name)
    \/ next_pull

SpecSequence == InitFrame /\ [][NextSequence]_vars

\* C28 (as the specification states it): every pull on the sequence, also
\* one that follows a pull that failed with RecursionError or
\* GenerationError, is a derivation that ends with a string or with one of
\* these errors; the sequence never signals that it is exhausted.
C28_NeverExhausted ==
    ret.op = "next" => ret.exc \in {"none", "RecursionError", "GenerationError"}

-----------------------------------------------------------------------------
(* Properties of the recursion counters within a call *)

\* the two trackers hold the same count for every rule
SameCounters(a, b) ==
    \A k \in DOMAIN a \cup DOMAIN b : TrackerGet(a, k) = TrackerGet(b, k)

\* tracker b holds one more than tracker a for the rule, and the same for
\* every other rule
OneMoreFor(rule, a, b) ==
    \A k \in DOMAIN a \cup DOMAIN b \cup {rule} :
        TrackerGet(b, k) = TrackerGet(a, k) + (IF k = rule THEN 1 ELSE 0)

\* what a derivation that began with the counters at began and ended
\* with exc (for the rule) may leave in the counters: what it found, and
\* one more for the rule whose entry the guard refused
Balanced(began, exc, rule, ended) ==
    IF exc = "RecursionError" THEN OneMoreFor(rule, began, ended)
    ELSE SameCounters(began, ended)

\* C29: on one generator used by one caller, over any sequence of
\* generate calls and pulls: no counter is negative; a derivation that
\* returns leaves every counter as it found it; and one that fails leaves
\* them so too, but for the one entry that the guard refused, which was
\* counted and never exited (every entry that passed was exited once).
C29_EntriesMatchExits ==
    /\ \A k \in DOMAIN tracker : tracker[k] >= 0
    /\ \A k \in DOMAIN ptracker : ptracker[k] >= 0
    /\ (ret.op = "generate" /\ ret.val.started # <<>>) =>
            Balanced(ret.val.started[Len(ret.val.started)], ret.exc,
                     ret.val.rule, tracker)
    /\ (ret.op = "generate_one" /\ ret.val.started # <<>>) =>
            Balanced(ret.val.started[Len(ret.val.started)], ret.exc,
                     ret.val.rule, ptracker)

\* generate with a rule name, on a generator that an earlier failed call
\* left a count of one in, has entered the rule once more (the guard let
\* it pass), was refused the next entry, and has left a count of two
C29_Witness ==
    /\ ret.op = "generate"
    /\ ret.exc = "RecursionError"
    /\ max_recursion_depth = 2
    /\ ret.val.started # <<>>
    /\ TrackerGet(ret.val.started[1], ret.val.rule) = 1
    /\ TrackerGet(tracker, ret.val.rule) = 2

-----------------------------------------------------------------------------
(* Both deterministic enumerators over the grammars the parser produces *)

\* public <s> = <a> [ w ] ;     public <s> = /5/ h ;     <a> = h | t ;
\* <a> = /2/ h i | /1/ t ;     public <t> = ( h | <a> ) [ <a> w ] ;
\* public <u> = <a> <a> ;
EnumeratedLines ==
    { <<HeadChunk(TRUE, Bracketed("s")),
        TextChunk(<<NameToken(Bracketed("a")), Mark("["), Word("w"), Mark("]")>>),
        SemiChunk>>,
      <<HeadChunk(TRUE, Bracketed("s")),
        TextChunk(<<WeightToken(5), Word("h")>>), SemiChunk>>,
      <<HeadChunk(FALSE, Bracketed("a")),
        TextChunk(<<Word("h"), Mark("|"), Word("t")>>), SemiChunk>>,
      <<HeadChunk(FALSE, Bracketed("a")),
        TextChunk(<<WeightToken(2), Word("h"), Word("i"), Mark("|"),
                    WeightToken(1), Word("t")>>), SemiChunk>>,
      <<HeadChunk(TRUE, Bracketed("t")),
        TextChunk(<<Mark("("), Word("h"), Mark("|"), NameToken(Bracketed("a")),
                    Mark(")"), Mark("["), NameToken(Bracketed("a")), Word("w"),
                    Mark("]")>>), SemiChunk>>,
      <<HeadChunk(TRUE, Bracketed("u")),
        TextChunk(<<NameToken(Bracketed("a")), NameToken(Bracketed("a"))>>),
        SemiChunk>> }

NextEnumerated ==
    \/ \E line \in EnumeratedLines : write_line(line)
    \/ \E k \in 1..MaxLines : enumerate_both(k)

SpecEnumerated == InitParse /\ [][NextEnumerated]_vars

\* the grammar's rule names are distinct, and every rule the public rule
\* reaches is defined and off every cycle
AcyclicFrom(grammar, name) ==
    LET defs == DefinitionsOf(grammar)
    IN  /\ DistinctNames(defs)
        /\ LUndefinedReached(defs, name) = {}
        /\ LDefined(defs, name)
        /\ ~LReachesCycle(defs, name)

\* C30 (as the specification states it): for every acyclic grammar the
\* parser produces and every public rule, processRHS of
\* DeterministicGenerator.py on the legacy rule body and jsgf
\* DeterministicGenerator.generate on the rule LegacyAdapter converts
\* yield the same strings, in the same order, with the same
\* multiplicities.
C30_EnumeratorsAgree ==
    (/\ ret.op = "enumerate both"
     /\ AcyclicFrom(ret.val.grammar, ret.val.rule))
    => /\ ret.val.legacy.exc = "none"
       /\ ret.val.jsgf.exc = "none"
       /\ ret.val.legacy.strings = ret.val.jsgf.strings
=============================================================================
